---- MODULE Spec2Model ----
(***************************************************************************)
(* A state-machine model of polaris/training/trainer.py: one run of        *)
(* Trainer.run_agents (training or evaluation), its episode loop, the      *)
(* per-step simulation loop of _run_simulation and the per-agent loop of   *)
(* _update_agent_states, with the Synaptic-Intelligence task bookkeeping.  *)
(* The environment, the agent networks, the replay buffer and the metrics  *)
(* tracker are collaborators; their outputs are drawn from small sets.     *)
(***************************************************************************)
EXTENDS Integers, Sequences, FiniteSets, TLC

\* ---------------------------------------------------------------- bounds
NumAgents == 2
NumStates == 2
MaxHorizon == 3
MaxEpisodes == 2
MaxIrregularities == 1
BufferCapacity == 2
BatchSize == 1
UpdateInterval == 2
MaxListLen == 2

Agents == 0 .. (NumAgents - 1)
States == 0 .. (NumStates - 1)
NoState == -1
NoAgent == -1

\* A belief tensor is abstracted to what the checks of the trainer can see.
Val == {"ok", "nan", "inf"}
NoDistribution == "none"

\* A reward as env.step returns it: a Python float, a Python int, or a
\* mapping with a "total" field.
RewardForms == {"float", "int", "dict"}

\* The irregular values a collaborator may produce: an invalid belief tensor
\* (the agent), an observation record that lacks a field, an integer reward
\* (the environment).
IrregularityKinds == {"belief", "observation", "reward"}

\* The outputs of the networks that vary from step to step in a run: the
\* policy's actions and probability vectors (with the allocations the
\* environment reports for them), the inference modules' attention weights,
\* the batches drawn from the replay buffers.
\* Outside these kinds a run sees one representative output.
VariationKinds == {"policy", "attention", "sampling"}

\* An action is identified by its kind: the index a discrete policy sampled,
\* the raw sample of a continuous policy, or the allocation a further policy
\* query returns.
IndexAction(i) == [kind |-> "index", value |-> i]
SampledAction == [kind |-> "sample", value |-> 0]
PolicyAllocation == [kind |-> "allocation", value |-> 0]

\* Probability vectors, in tenths: one with a single entry, one with an
\* entry per action index.
ProbVectors == {<<10>>, <<3, 7>>}
RegularProbs == <<3, 7>>

\* Line 383: the allocation used for a vector with fewer than 2 entries
\* (0.5, in tenths).
FallbackAllocation == 5

\* What one agent can do in a step when asked for attention weights: it has
\* no inference module, the module raises, get_attention_weights returns
\* None, the module has no latest_edge_index, get_attention_matrix returns
\* None, or it returns a matrix.
AttentionOutcomes == {"no_module", "raises", "none", "no_edge_index", "no_matrix", "matrix"}

\* An observation record is abstracted to the set of keys it carries.
SocialObs == {"signal", "neighbor_actions"}
FullObs == {"background_signal", "background_increment", "neighbor_allocations"}
NoIncrementObs == {"background_signal", "neighbor_allocations"}
IncrementOnlyObs == {"background_increment", "neighbor_allocations"}

\* A signal value is identified by where it was read from.
NoSignal == [owner |-> NoAgent, field |-> "unbound", at |-> "none"]
Signal(a, f, t) == [owner |-> a, field |-> f, at |-> t]

VARIABLES
    profile,            \* the kinds of irregular value the collaborators of this run produce
    args,               \* self.args
    env,                \* self.env: safe_payoff (present or not), true_state
    pc,                 \* position of the run
    episode,            \* loop variable of the episode loop
    step,               \* loop variable of the simulation loop
    agent_id,           \* loop variable of _update_agent_states
    agents,             \* self.agents: agent_id -> agent object state
    replay_buffers,     \* self.replay_buffers: agent_id -> sequence of transitions
    metrics,            \* self.metrics_tracker raw metrics of the current episode
    episodic_metrics,   \* episodic_metrics["episodes"]
    observations,       \* local of _run_simulation
    next_observations,  \* result of env.step
    rewards,            \* result of env.step
    done,               \* result of env.step
    done_sequence,      \* the done values env.step has returned in this episode
    total_rewards,      \* local of _run_simulation
    locals,             \* signal / next_signal locals of _update_agent_states
    error,              \* the exception that left the run, if any
    calls,              \* calls made on collaborators since the step (or INIT) began
    irregularities,     \* irregular values the collaborators have produced so far
    actions,            \* result of select_agent_actions: agent_id -> action
    action_probs,       \* result of select_agent_actions: agent_id -> probability vector
    info,               \* the info mapping of env.step, as the step leaves it
    observations_from,  \* the env call whose result `observations` holds (0: initialize)
    next_observations_from,     \* the env call whose result `next_observations` holds
    attention_weights_history,  \* local of _run_simulation
    registered_states,  \* agent_id -> the true states that triggered register_task in this run
    episode_records,    \* episodic_metrics["episodes"] as the mappings the aggregators read
    combined_metrics,   \* local of _process_training_results / _process_evaluation_results
    batch,              \* local of _update_agent_states: the batch last sampled
    encodings,          \* locals of _update_agent_states: the neighbor actions handed to
                        \* encode_observation and the vectors it returned
    evaluation,         \* locals of evaluate, and what it returned
    evaluation_summary, \* local of _process_evaluation_results
    quick_evaluation    \* locals of quick_evaluate, and what it returned

vars == <<profile, args, env, pc, episode, step, agent_id, agents, replay_buffers, metrics,
          episodic_metrics, observations, next_observations, rewards, done,
          done_sequence, total_rewards, locals, error, calls, irregularities,
          actions, action_probs, info, observations_from, next_observations_from,
          attention_weights_history, registered_states, episode_records,
          combined_metrics, batch, encodings,
         evaluation, evaluation_summary, quick_evaluation>>

\* ------------------------------------------------------------- call log
Call(op, a) ==
    [op |-> op, agent |-> a, signal |-> NoSignal, next_signal |-> NoSignal,
     reward |-> 0, state |-> NoState, size |-> 0, no_grad |-> FALSE,
     action |-> IndexAction(0), outcome |-> "unset"]

CallsOf(op, a) == {i \in 1 .. Len(calls) : calls[i].op = op /\ calls[i].agent = a}
CallsNamed(op) == {i \in 1 .. Len(calls) : calls[i].op = op}

\* ------------------------------------------------------ collaborators
\* An importance tracker (belief_si / policy_si): current task and the
\* number of consolidations (register_task calls) it has received.
NewTracker == [task |-> NoState, registered |-> 0]
set_task(tracker, s) == [tracker EXCEPT !.task = s]
register_task(tracker) == [tracker EXCEPT !.registered = @ + 1]

\* POLARISAgent(...): a newly constructed agent.
NewAgent(use_si, continuous_actions) ==
    [current_belief |-> "ok",
     current_belief_distribution |-> NoDistribution,
     belief_updates |-> 0,
     current_latent |-> 0,
     continuous_actions |-> continuous_actions,
     use_si |-> use_si,
     seen_true_states |-> {},
     current_true_state |-> NoState,
     belief_si |-> NewTracker,
     policy_si |-> NewTracker,
     state_belief_si_trackers |-> [s \in {} |-> NewTracker],
     state_policy_si_trackers |-> [s \in {} |-> NewTracker],
     path_integrals_calculated |-> FALSE,
     mode |-> "train",
     updates |-> 0,
     initialized_in |-> "nowhere",
     models_loaded |-> FALSE]

\* reset_agent_internal_states(agents): belief and latent back to their
\* initial tensors.  The belief and the latent are further identified by the
\* number of observe / infer_latent calls behind them.
reset_agent_internal_states(ags) ==
    [a \in DOMAIN ags |->
        [ags[a] EXCEPT !.current_belief = "ok",
                       !.current_belief_distribution = NoDistribution,
                       !.belief_updates = 0,
                       !.current_latent = 0]]

\* ReplayBuffer: store appends, evicting the oldest record when full.
store_transition_in_buffer(buffer, capacity, transition) ==
    IF Len(buffer) < capacity
    THEN Append(buffer, transition)
    ELSE Append(Tail(buffer), transition)

\* encode_observation(signal, neighbor_actions, num_agents, ...): the vector
\* of the neighbors' actions has one slot per agent id, which holds what the
\* mapping reports for that id, or the neutral value where it reports
\* nothing.  A mapping is the sequence of its items in insertion order.
Neutral(continuous_actions) == IF continuous_actions THEN 0 ELSE NoState

Reports(neighbor_actions, id) ==
    {k \in 1 .. Len(neighbor_actions) : neighbor_actions[k].id = id}

encode_neighbor_actions_in_report_order(neighbor_actions, num_agents, continuous_actions) ==
    [slot \in 1 .. num_agents |->
        IF slot <= Len(neighbor_actions)
        THEN neighbor_actions[slot].action
        ELSE Neutral(continuous_actions)]

encode_neighbor_actions(neighbor_actions, num_agents, continuous_actions) ==
    [slot \in 1 .. num_agents |->
        IF Reports(neighbor_actions, slot - 1) # {}
        THEN neighbor_actions[CHOOSE k \in Reports(neighbor_actions, slot - 1) : TRUE].action
        ELSE Neutral(continuous_actions)]

\* ReplayBuffer.sample(batch_size): fails unless the buffer holds more than
\* batch_size records; otherwise returns batch_size distinct records of the
\* buffer, any of them, and leaves the buffer as it is.
Sampled(err, drawn) == [error |-> err, batch |-> drawn]

Batches(buffer, n) ==
    {b \in SUBSET {buffer[i] : i \in 1 .. Len(buffer)} : Cardinality(b) = n}

sample_unless_fewer(buffer, batch_size) ==
    IF Len(buffer) < batch_size
    THEN {Sampled("InsufficientDataError", {})}
    ELSE {Sampled("none", b) : b \in Batches(buffer, batch_size)}

sample(buffer, batch_size) ==
    IF Len(buffer) <= batch_size
    THEN {Sampled("InsufficientDataError", {})}
    ELSE {Sampled("none", b) : b \in Batches(buffer, batch_size)}

\* MetricsTracker(env, args, training): a fresh raw metrics store.
NewMetrics ==
    [belief_distributions |-> [a \in Agents |-> <<>>],
     step_records |-> 0,
     step_entries |-> <<>>,
     attention_weights |-> <<>>,
     summary_writes |-> 0,
     total_rewards |-> [a \in Agents |-> 0],
     final_observations |-> [a \in Agents |-> {}]]

\* update_total_rewards(total_rewards, rewards): adds each agent's reward,
\* taking the "total" field of a mapping.
update_total_rewards(totals, rws) ==
    [a \in Agents |-> totals[a] + rws[a].value]

\* --------------------------------------------------------- the trainer
\* Trainer._initialize_agents: one new agent per id 0 .. num_agents-1, with
\* use_si taken from args.
initialize_agents(a_args, caller) ==
    [a \in Agents |-> [NewAgent(a_args.use_si, a_args.continuous_actions)
                          EXCEPT !.initialized_in = caller]]

\* load_agent_models(agents, model_path, num_agents, training): the agents
\* handed over get the models under model_path.
load_agent_models(ags) == [a \in DOMAIN ags |-> [ags[a] EXCEPT !.models_loaded = TRUE]]

\* Trainer._initialize_replay_buffers: one empty buffer per agent id.
initialize_replay_buffers(ags) == [a \in DOMAIN ags |-> <<>>]

\* A setup that forgets the policy tracker.
setup_si_agent_belief_only(ag, s) ==
    IF ag.use_si
    THEN [ag EXCEPT !.current_true_state = s,
                    !.belief_si = set_task(@, s),
                    !.path_integrals_calculated = TRUE]
    ELSE ag

\* Trainer._setup_si_for_training, the body for one agent.
setup_si_agent(ag, s) ==
    IF ag.use_si
    THEN [ag EXCEPT !.current_true_state = s,
                    !.belief_si = set_task(@, s),
                    !.policy_si = set_task(@, s),
                    !.path_integrals_calculated = TRUE]
    ELSE ag

setup_si_calls(ag, a, s) ==
    IF ag.use_si
    THEN << [Call("belief_si.set_task", a) EXCEPT !.state = s],
            [Call("policy_si.set_task", a) EXCEPT !.state = s] >>
    ELSE << >>

RECURSIVE ConcatOver(_, _, _)
\* The concatenation of f[a] for a = from .. NumAgents-1, in ascending order.
ConcatOver(f, from, to) ==
    IF from > to THEN << >> ELSE f[from] \o ConcatOver(f, from + 1, to)

\* Trainer._setup_si_for_training: guarded by args.use_si.
setup_si_for_training(ags, a_args, s) ==
    IF a_args.use_si
    THEN [a \in DOMAIN ags |-> setup_si_agent(ags[a], s)]
    ELSE ags

setup_si_for_training_calls(ags, a_args, s) ==
    IF a_args.use_si
    THEN ConcatOver([a \in Agents |-> setup_si_calls(ags[a], a, s)], 0, NumAgents - 1)
    ELSE << >>

\* _run_simulation, lines 312-314: SI is set up only when training.
si_setup_due(training) == training

\* ------------------------------------------------ episode metric records
\* An entry of an episode's raw metrics mapping.  `shape` tells which Python
\* value the entry stands for:
\*   "scalar"         the number number / over
\*   "list"           the list `list`
\*   "agent_lists"    a mapping from the ids to the lists `lists`
\*   "agent_scalars"  a mapping from the ids to the numbers numbers / over
\*   "nested"         a mapping from the ids to mappings with the keys `lists`
\* An episode record is a function from its keys to such entries.
NoLists == [a \in Agents |-> << >>]
NoNumbers == [a \in Agents |-> 0]

scalar(n, d) ==
    [shape |-> "scalar", ids |-> {}, numbers |-> NoNumbers, lists |-> NoLists,
     list |-> << >>, number |-> n, over |-> d]

flat_list(l) ==
    [shape |-> "list", ids |-> {}, numbers |-> NoNumbers, lists |-> NoLists,
     list |-> l, number |-> 0, over |-> 1]

agent_lists(ids, ls) ==
    [shape |-> "agent_lists", ids |-> ids, numbers |-> NoNumbers,
     lists |-> [a \in Agents |-> IF a \in ids THEN ls[a] ELSE << >>],
     list |-> << >>, number |-> 0, over |-> 1]

agent_scalars(ids, ns, d) ==
    [shape |-> "agent_scalars", ids |-> ids,
     numbers |-> [a \in Agents |-> IF a \in ids THEN ns[a] ELSE 0],
     lists |-> NoLists, list |-> << >>, number |-> 0, over |-> d]

nested(ids, ls) ==
    [shape |-> "nested", ids |-> ids, numbers |-> NoNumbers,
     lists |-> [a \in Agents |-> IF a \in ids THEN ls[a] ELSE << >>],
     list |-> << >>, number |-> 0, over |-> 1]

\* The keys of a mapping from agent ids, in the order of iteration.
KeysOf(ids) ==
    [i \in 1 .. Cardinality(ids) |->
        CHOOSE a \in ids : Cardinality({b \in ids : b < a}) = i - 1]

Elements(l) == {l[i] : i \in 1 .. Len(l)}

RECURSIVE Sum(_)
Sum(l) == IF l = << >> THEN 0 ELSE Head(l) + Sum(Tail(l))

\* np.mean(values): the sum over the count, kept as the exact quotient.
mean_of_first(values) == [sum |-> Head(values), over |-> 1]

mean(values) == [sum |-> Sum(values), over |-> Len(values)]

\* isinstance(value, dict)
is_dict(v) == v.shape \in {"agent_lists", "agent_scalars", "nested"}

\* all(isinstance(v, list) for v in value.values()): true of an empty mapping.
all_values_are_lists(v) == v.ids = {} \/ v.shape = "agent_lists"

\* isinstance(value, list)
is_list(v) == v.shape = "list"

\* The outcome of extending a list: the items added, or the exception.
Extended(err, items) == [error |-> err, items |-> items]

\* Lines 467-468, one episode: `if key in ep and agent_id in ep[key]:
\* agent_data.extend(ep[key][agent_id])`.  `in` raises on a number and looks
\* among the items of a list; extend raises on a number and takes the keys of
\* a mapping.
agent_data_from(ep, key, a) ==
    IF key \notin DOMAIN ep
    THEN Extended("none", << >>)
    ELSE LET v == ep[key]
         IN  CASE v.shape = "scalar" -> Extended("TypeError", << >>)
               [] v.shape = "list" ->
                      IF a \notin Elements(v.list) THEN Extended("none", << >>)
                      ELSE IF a + 1 > Len(v.list) THEN Extended("IndexError", << >>)
                      ELSE Extended("TypeError", << >>)
               [] v.shape = "agent_scalars" ->
                      IF a \in v.ids THEN Extended("TypeError", << >>)
                      ELSE Extended("none", << >>)
               [] OTHER ->
                      IF a \in v.ids THEN Extended("none", v.lists[a])
                      ELSE Extended("none", << >>)

\* Lines 474-475, one episode: `if key in ep: aggregated_list.extend(ep[key])`.
list_from(ep, key) ==
    IF key \notin DOMAIN ep
    THEN Extended("none", << >>)
    ELSE LET v == ep[key]
         IN  CASE v.shape = "scalar" -> Extended("TypeError", << >>)
               [] v.shape = "list" -> Extended("none", v.list)
               [] OTHER -> Extended("none", KeysOf(v.ids))

\* The loop over the episodes (lines 466 / 473) up to episode n: the data
\* gathered, or the first exception.
RECURSIVE extend_over(_, _)
extend_over(parts, n) ==
    IF n = 0
    THEN Extended("none", << >>)
    ELSE LET before == extend_over(parts, n - 1)
         IN  IF before.error # "none" THEN before
             ELSE IF parts[n].error # "none" THEN parts[n]
             ELSE Extended("none", before.items \o parts[n].items)

\* Lines 463-469: the data of one agent under a key.
agent_data_of_first_episode(episodes, key, a) ==
    extend_over([e \in 1 .. Len(episodes) |-> agent_data_from(episodes[e], key, a)], 1)

agent_data(episodes, key, a) ==
    extend_over([e \in 1 .. Len(episodes) |-> agent_data_from(episodes[e], key, a)],
                Len(episodes))

\* Lines 472-476: the data under a key that holds a flat list.
aggregated_list(episodes, key) ==
    extend_over([e \in 1 .. Len(episodes) |-> list_from(episodes[e], key)],
                Len(episodes))

\* Line 434: the structure is taken from the first episode.
structure_of(episodes) ==
    [keys |-> DOMAIN episodes[1],
     value |-> episodes[1],
     ids |-> [k \in DOMAIN episodes[1] |-> episodes[1][k].ids]]

\* ep.get("episode_time", 0), line 443.  The trainer writes a number (406).
episode_time_of(ep) ==
    IF "episode_time" \in DOMAIN ep THEN ep["episode_time"].number ELSE 0

\* ep.get("total_rewards", {}).get(agent_id, 0), lines 448-456.  The trainer
\* writes a mapping from agent ids to numbers (407-409).
total_reward_of(ep, a) ==
    IF "total_rewards" \in DOMAIN ep /\ a \in ep["total_rewards"].ids
    THEN ep["total_rewards"].numbers[a]
    ELSE 0

\* The outcome for one key: whether the aggregate gets the key, its value,
\* or the exception.
Merged(v) == [error |-> "none", present |-> TRUE, value |-> v]
Omitted == [error |-> "none", present |-> FALSE, value |-> scalar(0, 1)]
Failed(err) == [error |-> err, present |-> FALSE, value |-> scalar(0, 1)]

\* Lines 439-476: the branches of the loop over the first episode's keys.
aggregate_key(episodes, key, value, ids) ==
    LET n == Len(episodes)
        times == mean([e \in 1 .. n |-> episode_time_of(episodes[e])])
    IN  IF key = "episode_time"
        THEN Merged(scalar(times.sum, times.over))
        ELSE IF key = "total_rewards"
        THEN IF ids = {}
             THEN Omitted
             ELSE LET means == [a \in ids |->
                                   mean([e \in 1 .. n |-> total_reward_of(episodes[e], a)])]
                  IN  Merged(agent_scalars(ids,
                          [a \in Agents |-> IF a \in ids THEN means[a].sum ELSE 0],
                          means[CHOOSE a \in ids : TRUE].over))
        ELSE IF is_dict(value) /\ all_values_are_lists(value)
        THEN LET data == [a \in ids |-> agent_data(episodes, key, a)]
                 failed == {a \in ids : data[a].error # "none"}
             IN  IF failed # {}
                 THEN Failed(data[CHOOSE a \in failed : \A b \in failed : a <= b].error)
                 ELSE Merged(agent_lists(ids,
                          [a \in Agents |-> IF a \in ids THEN data[a].items ELSE << >>]))
        ELSE IF is_list(value)
        THEN LET data == aggregated_list(episodes, key)
             IN  IF data.error # "none" THEN Failed(data.error)
                 ELSE Merged(flat_list(data.items))
        ELSE Omitted

\* What a results processor hands back: the combined mapping, or the
\* exception that left it.
Combined(err, value) == [error |-> err, value |-> value]

\* Trainer._aggregate_episode_results (lines 429-478).
aggregate_episode_results(episodes) ==
    IF episodes = << >>
    THEN Combined("none", << >>)
    ELSE LET first == structure_of(episodes)
             results == [k \in first.keys |->
                            aggregate_key(episodes, k, first.value[k], first.ids[k])]
             failed == {k \in first.keys : results[k].error # "none"}
         IN  IF failed # {}
             THEN Combined(results[CHOOSE k \in failed : TRUE].error, << >>)
             ELSE Combined("none",
                      [k \in {j \in first.keys : results[j].present} |-> results[k].value])

\* ------------------------------------------------------------------ Init
Configurations ==
    [training : BOOLEAN, use_si : BOOLEAN, continuous_actions : BOOLEAN,
     horizon : 1 .. MaxHorizon,
     num_episodes : 1 .. MaxEpisodes, batch_size : {BatchSize},
     update_interval : {UpdateInterval}, buffer_capacity : {BufferCapacity}]

\* The info mapping before env.step has returned one.
NoInfo == [allocations_given |-> FALSE, allocations |-> [a \in Agents |-> 0]]

\* Nothing has been handed to the encoder.
NotEncoded ==
    [neighbor_actions |-> << >>, next_neighbor_actions |-> << >>,
     actions_encoded |-> << >>, next_actions_encoded |-> << >>]

\* No summary: the empty default of evaluate, line 1139.
NoSummary ==
    [computed |-> FALSE, num_episodes |-> 0,
     reward_statistics |->
         [a \in Agents |-> [mean |-> [sum |-> 0, over |-> 1], min |-> 0, max |-> 0]]]

\* evaluate has not been called.
NoResult == [evaluation_summary |-> NoSummary, num_episodes |-> 0, steps_per_episode |-> 0]

\* An optional argument: None, or a number.
NotGiven == [given |-> FALSE, value |-> 0]
Given(n) == [given |-> TRUE, value |-> n]

NoEvaluation ==
    [num_episodes |-> NotGiven, num_steps |-> NotGiven,
     active |-> FALSE, original_episodes |-> 0, original_horizon |-> 0,
     eval_episodes |-> 0, eval_steps |-> 0, returned |-> FALSE, result |-> NoResult]

\* quick_evaluate has not been called.
NoQuickEvaluation ==
    [num_steps |-> 0, correct_actions |-> [a \in Agents |-> 0], returned |-> FALSE,
     total_rewards |-> [a \in Agents |-> 0],
     action_accuracy |-> [a \in Agents |-> [sum |-> 0, over |-> 1]]]

\* The state in which the run stands at a position with no episode begun,
\* the episode records being one of `inputs`, the replay buffers one of
\* `buffers`, the encoder's arguments one of `reports` and the arguments of
\* evaluate one of `requests`.
StandingWith(position, inputs, buffers, reports, kinds, configurations, requests) ==
    /\ profile = kinds
    /\ args \in configurations
    /\ env \in [safe_payoff : BOOLEAN, true_state : States]
    /\ pc = position
    /\ episode = 0
    /\ step = 0
    /\ agent_id = 0
    /\ agents = << >>
    /\ replay_buffers \in buffers
    /\ metrics = NewMetrics
    /\ episodic_metrics = << >>
    /\ observations = [a \in Agents |-> {}]
    /\ next_observations = [a \in Agents |-> {}]
    /\ rewards = [a \in Agents |-> [form |-> "float", value |-> 0]]
    /\ done = FALSE
    /\ done_sequence = << >>
    /\ total_rewards = [a \in Agents |-> 0]
    /\ locals = [signal |-> NoSignal, next_signal |-> NoSignal]
    /\ error = "none"
    /\ calls = << >>
    /\ irregularities = 0
    /\ actions = [a \in Agents |-> IndexAction(0)]
    /\ action_probs = [a \in Agents |-> RegularProbs]
    /\ info = NoInfo
    /\ observations_from = 0
    /\ next_observations_from = 0
    /\ attention_weights_history = << >>
    /\ registered_states = [a \in Agents |-> {}]
    /\ episode_records \in inputs
    /\ combined_metrics = << >>
    /\ batch = {}
    /\ encodings \in reports
    /\ evaluation \in requests
    /\ evaluation_summary = NoSummary
    /\ quick_evaluation = NoQuickEvaluation

StandingAt(position, inputs, buffers, reports, kinds, configurations) ==
    StandingWith(position, inputs, buffers, reports, kinds, configurations, {NoEvaluation})

\* The state after Trainer.__init__.
Constructed(kinds, configurations) ==
    StandingAt("constructed", {<< >>}, {<< >>}, {NotEncoded}, kinds, configurations)

\* A run in which every kind of irregular value can occur.
Init == Constructed(IrregularityKinds, Configurations)

\* Runs of the discrete-action trainer, and among them the runs of one
\* episode in one mode without continual learning.
Discrete == {c \in Configurations : ~ c.continuous_actions}
OneEpisode == {c \in Configurations : c.num_episodes = 1 /\ ~ c.use_si}
OneEvaluation == {c \in OneEpisode : ~ c.training}

\* A discrete-action run in which the agents' networks and the rewards are
\* regular: every collaborator is regular, or, in a run of one episode, an
\* observation record can lack a field.
InitRegular ==
    \/ Constructed({}, Discrete)
    \/ Constructed({"observation"}, OneEpisode \cap Discrete)

\* A discrete-action run in which a collaborator can fail: a run of one
\* episode in which a belief can be invalid and an observation record can
\* lack a field, or a run of several one-step episodes in which an
\* observation record can lack a field.
InitFaulty ==
    \/ Constructed({"belief", "observation"}, OneEpisode \cap Discrete)
    \/ Constructed({"observation"}, {c \in Discrete : ~ c.use_si /\ c.horizon = 1})

\* An evaluation run of one episode with regular collaborators in which the
\* policy's outputs, or the attention weights, vary from step to step.
\* Training runs in which any batch can be drawn from a buffer.
InitSampled == Constructed({"sampling"}, {c \in Discrete : c.training /\ ~c.use_si})

InitVaried ==
    \/ Constructed({"policy"}, OneEvaluation)
    \/ Constructed({"attention"}, OneEvaluation \cap Discrete)

\* One configuration for each mode, for what reads of args only the mode
\* and the sizes.
ModeOnly(training) ==
    {c \in OneEpisode \cap Discrete : c.horizon = 1 /\ c.training = training}

\* ------------------------------------------------- inputs of the encoder
\* The mappings from some agent ids to actions, in every insertion order.
RECURSIVE NeighborActions(_)
NeighborActions(n) ==
    IF n = 0
    THEN {<< >>}
    ELSE LET shorter == NeighborActions(n - 1)
             longer == {Append(m, [id |-> i, action |-> x]) :
                           m \in {t \in shorter : Len(t) = n - 1},
                           i \in Agents, x \in States}
         IN  shorter \cup {t \in longer : \A k \in 1 .. n - 1 : t[k].id # t[n].id}

\* The observation and the next observation of an agent are about to be
\* encoded.
InitEncode ==
    /\ env = [safe_payoff |-> FALSE, true_state |-> 0]
    /\ StandingAt("encode", {<< >>}, {<< >>},
                  [neighbor_actions : NeighborActions(NumAgents),
                   next_neighbor_actions : NeighborActions(NumAgents),
                   actions_encoded : {<< >>}, next_actions_encoded : {<< >>}],
                  {}, {c \in OneEpisode : c.horizon = 1 /\ c.training})

\* ------------------------------------------------- inputs of the sampler
\* A transition of agent a stored at step t of the first episode.
StoredAt(a, t) ==
    [owner |-> a, belief |-> "ok", reward |-> a + 1, next_belief |-> "ok",
     episode |-> 0, step |-> t, belief_updates |-> t, next_belief_updates |-> t + 1,
     latent |-> t, next_latent |-> t + 1, action |-> IndexAction(0)]

\* The buffers of capacity BufferCapacity that hold the transitions of
\* consecutive steps of agent a.
BuffersOf(a) ==
    {[i \in 1 .. size |-> StoredAt(a, from + i - 1)] :
        size \in 0 .. BufferCapacity, from \in 0 .. MaxHorizon - 1}

\* A batch is about to be drawn from the buffer of agent 0.
InitSample ==
    StandingAt("sample", {<< >>}, {buffers \in [Agents -> UNION {BuffersOf(a) : a \in Agents}] :
                                      \A a \in Agents : buffers[a] \in BuffersOf(a)},
               {NotEncoded}, {"sampling"}, ModeOnly(TRUE))

\* ---------------------------------------- inputs of the results processors
\* The items of the lists are numbered so that each occurs once in the
\* episodes handed over; the last episode's lists of agent 0 begin at 0.
item(e, a, i) == 100 * (MaxEpisodes - e) + 10 * a + (i - 1)
items(e, a, n) == [i \in 1 .. n |-> item(e, a, i)]

\* The total reward of agent a in the e-th record.
total_in(e, a) == e * (a + 1)

\* A record without keys.
NoKeys == [k \in {} |-> scalar(0, 1)]

\* Records of the summary fields: episode_time, and total_rewards for some
\* of the agents.
RewardRecords(e) ==
    {[k \in keys |-> IF k = "episode_time"
                     THEN scalar(e, 1)
                     ELSE agent_scalars(ids, [a \in Agents |-> total_in(e, a)], 1)] :
        keys \in SUBSET {"episode_time", "total_rewards"}, ids \in SUBSET Agents}

\* Records of one per-agent metric: lists of n items for some of the agents.
ListRecords(e) ==
    {NoKeys} \cup
    {[k \in {"metric"} |-> agent_lists(ids, [a \in Agents |-> items(e, a, n)])] :
        ids \in SUBSET Agents, n \in 0 .. MaxListLen}

\* Records of one flat metric.
FlatRecords(e) ==
    {NoKeys} \cup {[k \in {"metric"} |-> flat_list(items(e, 0, n))] : n \in 0 .. MaxListLen}

\* Records of one metric whose entry is of any shape.
ShapedRecords(e) ==
    {NoKeys} \cup
    {[k \in {"metric"} |-> v] :
        v \in {scalar(e, 1), agent_lists({}, NoLists)} \cup
              {flat_list(items(e, 0, n)) : n \in {0, MaxListLen}} \cup
              {agent_lists(Agents, [a \in Agents |-> items(e, a, n)]) : n \in {0, MaxListLen}} \cup
              {agent_scalars(Agents, [a \in Agents |-> total_in(e, a)], 1)} \cup
              {nested(Agents, [a \in Agents |-> items(e, a, n)]) : n \in {0, MaxListLen}}}

\* The sequences of up to n records, the e-th drawn from records[e].
RECURSIVE SequencesOf(_, _)
SequencesOf(records, n) ==
    IF n = 0
    THEN {<< >>}
    ELSE LET shorter == SequencesOf(records, n - 1)
         IN  shorter \cup {Append(s, r) : s \in {t \in shorter : Len(t) = n - 1},
                                           r \in records[n]}

\* The episodes are over and their records are handed to the results
\* processor of the mode, which does not read the environment.
InitResults ==
    /\ env = [safe_payoff |-> FALSE, true_state |-> 0]
    /\ \/ StandingAt("process_results",
                     SequencesOf([e \in 1 .. MaxEpisodes |-> RewardRecords(e)], MaxEpisodes),
                     {<< >>}, {NotEncoded}, {}, ModeOnly(TRUE) \cup ModeOnly(FALSE))
       \/ StandingAt("process_results",
                     SequencesOf([e \in 1 .. MaxEpisodes |-> ListRecords(e)], MaxEpisodes),
                     {<< >>}, {NotEncoded}, {}, ModeOnly(TRUE) \cup ModeOnly(FALSE))
       \/ StandingAt("process_results",
                     SequencesOf([e \in 1 .. MaxEpisodes |-> FlatRecords(e)], MaxEpisodes),
                     {<< >>}, {NotEncoded}, {}, ModeOnly(TRUE) \cup ModeOnly(FALSE))
       \/ StandingAt("process_results",
                     SequencesOf([e \in 1 .. MaxEpisodes |-> ShapedRecords(e)], MaxEpisodes),
                     {<< >>}, {NotEncoded}, {}, ModeOnly(FALSE))

\* The calls evaluate(num_episodes, num_steps) with each argument None or
\* one of the numbers.
Requests(episodes, steps) ==
    {[NoEvaluation EXCEPT !.num_episodes = e, !.num_steps = h] :
        e \in {NotGiven} \cup {Given(n) : n \in episodes},
        h \in {NotGiven} \cup {Given(n) : n \in steps}}

\* A trainer on which evaluate is about to be called: with any arguments
\* when its collaborators are regular, and for one episode when an
\* observation record can lack a field.
InitEvaluate ==
    \/ StandingWith("evaluate", {<< >>}, {<< >>}, {NotEncoded}, {},
                    {c \in Discrete : ~ c.training /\ ~ c.use_si /\ c.horizon = 1},
                    Requests(1 .. MaxEpisodes, 1 .. MaxHorizon))
    \/ StandingWith("evaluate", {<< >>}, {<< >>}, {NotEncoded}, {"observation"},
                    {c \in OneEvaluation \cap Discrete : c.horizon = 1},
                    Requests({1}, 1 .. MaxHorizon))

\* A trainer that runs one episode of one step, in either mode.
InitQuick ==
    Constructed({}, {c \in OneEpisode \cap Discrete : c.horizon = 1})

\* ------------------------------------------------------------ run_agents
\* Trainer._set_agents_train_mode / _set_agents_eval_mode.
set_agents_mode(ags, m) == [a \in DOMAIN ags |-> [ags[a] EXCEPT !.mode = m]]

\* Trainer.run_agents up to the episode loop, with the head of _run_training
\* or _run_evaluation: agents are built (and models loaded), the replay
\* buffers are built for training only, and the mode is toggled.
run_agents ==
    /\ pc = "constructed"
    /\ LET built == load_agent_models(initialize_agents(args, "run_agents")) IN
         /\ agents' = set_agents_mode(built, IF args.training THEN "train" ELSE "eval")
         /\ replay_buffers' = IF args.training
                              THEN initialize_replay_buffers(built)
                              ELSE replay_buffers
    /\ pc' = "episode_start"
    /\ UNCHANGED <<episode_records, combined_metrics, batch, encodings>>
    /\ UNCHANGED <<evaluation, evaluation_summary, quick_evaluation>>
    /\ UNCHANGED <<profile, args, env, episode, step, agent_id, metrics, episodic_metrics,
                   observations, next_observations, rewards, done, done_sequence,
                   total_rewards, locals, error, calls, irregularities,
                   actions, action_probs, info, observations_from, next_observations_from,
                   attention_weights_history, registered_states>>

\* ------------------------------------------------------ the environment
\* The observation records an environment of this variant can hand out.
ObsKinds(e) ==
    IF e.safe_payoff
    THEN IF "observation" \in profile
         THEN {FullObs, NoIncrementObs, IncrementOnlyObs}
         ELSE {FullObs}
    ELSE {SocialObs}

\* The forms in which the environment of this run returns a reward.
FormsReturned == IF "reward" \in profile THEN RewardForms ELSE RewardForms \ {"int"}

\* The record an environment of this variant hands out when all is well.
RegularObs(e) == IF e.safe_payoff THEN FullObs ELSE SocialObs

\* The collaborators misbehave a bounded number of times in a run: an
\* observation record that lacks a field, an integer reward, an invalid
\* belief tensor each count as one irregularity.
IrregularRecords(e, obs) == Cardinality({a \in Agents : obs[a] # RegularObs(e)})
IrregularForm(form) == IF form = "int" THEN 1 ELSE 0

\* What env.initialize can return.
InitialObservations(e, budget) ==
    {obs \in [Agents -> ObsKinds(e)] : IrregularRecords(e, obs) <= budget}

\* What env.step can return.  The reward of agent a has the value a + 1, in
\* one of the three forms.
StepOutputs(e, budget) ==
    {out \in [obs : [Agents -> ObsKinds(e)], form : FormsReturned,
              done : BOOLEAN, true_state : States] :
        IrregularRecords(e, out.obs) + IrregularForm(out.form) <= budget}

\* What select_agent_actions can return: an action and a probability vector
\* for every agent.  A discrete policy samples an index among num_states
\* actions, a continuous one a raw allocation.
ActionsOf(a_args) ==
    IF a_args.continuous_actions THEN {SampledAction} ELSE {IndexAction(i) : i \in States}

RegularAction(a_args) ==
    IF a_args.continuous_actions THEN SampledAction ELSE IndexAction(0)

\* In a run whose policy outputs vary, the output of one agent per step
\* departs from the representative output.
PolicyOutputs(a_args) ==
    IF "policy" \in profile
    THEN {out \in [actions : [Agents -> ActionsOf(a_args)],
                   action_probs : [Agents -> ProbVectors]] :
             \E d \in Agents : \A a \in Agents \ {d} :
                 /\ out.actions[a] = RegularAction(a_args)
                 /\ out.action_probs[a] = RegularProbs}
    ELSE {[actions |-> [a \in Agents |-> RegularAction(a_args)],
           action_probs |-> [a \in Agents |-> RegularProbs]]}

\* The allocations the environment computes on its own: from the discrete
\* action index (in tenths), or from the raw allocation it was sent.
EnvAllocations(acts) ==
    [a \in Agents |->
        IF acts[a].kind = "index"
        THEN 10 * acts[a].value
        ELSE [kind |-> "environment", value |-> 0]]

\* The info mapping env.step can return for the joint action: with or
\* without an "allocations" entry.
InfoOutputs(e, acts) ==
    IF e.safe_payoff /\ "policy" \in profile
    THEN {NoInfo, [allocations_given |-> TRUE, allocations |-> EnvAllocations(acts)]}
    ELSE {NoInfo}

\* A loop head that keeps the tracker of the episode before.
metrics_for_episode_reused(previous) == previous

\* Lines 141 and 174: self.metrics_tracker = MetricsTracker(...), a new
\* tracker with a new raw metrics store, whatever the one before held.
metrics_for_episode(previous) == NewMetrics

\* --------------------------------------------- _run_simulation: INIT
\* One iteration head of the episode loop (fresh MetricsTracker) and
\* _run_simulation up to the simulation loop: env.initialize, new agents,
\* SI setup when training, reset of the agents' internal states.
\* _run_training, lines 114-147: the replay buffers are built once, before
\* the episode loop, and no episode replaces them.
replay_buffers_rebuilt_per_episode(buffers) == [a \in DOMAIN buffers |-> << >>]

replay_buffers_for_episode(buffers) == buffers

\* Lines 305-307: self.agents = self._initialize_agents(obs_dim), in every
\* episode.
agents_kept_for_episode(ags, a_args) == ags

agents_for_episode(ags, a_args) == initialize_agents(a_args, "_run_simulation")

EpisodeStart ==
    /\ pc = "episode_start"
    /\ replay_buffers' = replay_buffers_for_episode(replay_buffers)
    /\ episode < args.num_episodes
    /\ metrics' = metrics_for_episode(metrics)
    /\ \E s \in States, obs \in InitialObservations(env, MaxIrregularities - irregularities) :
         /\ env' = [env EXCEPT !.true_state = s]
         /\ irregularities' = irregularities + IrregularRecords(env, obs)
         /\ observations' = obs
         /\ LET built == agents_for_episode(agents, args)
                setup == IF si_setup_due(args.training)
                         THEN setup_si_for_training(built, args, s)
                         ELSE built
            IN  /\ agents' = reset_agent_internal_states(setup)
                /\ calls' = << [Call("env.initialize", NoAgent) EXCEPT !.state = s] >>
                            \o (IF si_setup_due(args.training)
                                THEN setup_si_for_training_calls(built, args, s)
                                ELSE << >>)
    /\ total_rewards' = [a \in Agents |-> 0]
    /\ step' = 0
    /\ agent_id' = 0
    /\ done' = FALSE
    /\ done_sequence' = << >>
    /\ observations_from' = 0
    /\ attention_weights_history' = << >>
    /\ pc' = "select"
    /\ UNCHANGED <<episode_records, combined_metrics, batch, encodings>>
    /\ UNCHANGED <<evaluation, evaluation_summary, quick_evaluation>>
    /\ UNCHANGED <<profile, args, episode, episodic_metrics, next_observations,
                   rewards, locals, error, actions, action_probs, info,
                   next_observations_from, registered_states>>

\* ------------------------------------- _run_simulation: head of a step
\* Trainer._collect_policy_information: the NaN check on the agents'
\* belief distributions, made only for an environment with safe_payoff and
\* only on a distribution that is not None.
belief_check_raises(e, ags) ==
    /\ e.safe_payoff
    /\ \E a \in DOMAIN ags :
         /\ ags[a].current_belief_distribution # NoDistribution
         /\ ags[a].current_belief_distribution = "nan"

\* Lines 330-351: select_agent_actions, _collect_policy_information,
\* env.step, update_total_rewards.
\* Lines 349-351: `if rewards: update_total_rewards(total_rewards, rewards)`.
accumulate_rewards_overwriting(totals, rws) ==
    IF DOMAIN rws # {}
    THEN update_total_rewards([a \in Agents |-> 0], rws)
    ELSE totals

accumulate_rewards(totals, rws) ==
    IF DOMAIN rws # {}
    THEN update_total_rewards(totals, rws)
    ELSE totals

SelectStep ==
    /\ pc = "select"
    /\ step < args.horizon
    /\ \E selected \in PolicyOutputs(args) :
         /\ actions' = selected.actions
         /\ action_probs' = selected.action_probs
    /\ IF belief_check_raises(env, agents)
       THEN /\ pc' = "raised"
            /\ error' = "InvalidBeliefDistributionError"
            /\ calls' = << Call("select_agent_actions", NoAgent) >>
            /\ UNCHANGED <<env, next_observations, rewards, done, done_sequence,
                           total_rewards, agent_id, locals, irregularities, info,
                           next_observations_from>>
       ELSE \E out \in StepOutputs(env, MaxIrregularities - irregularities) :
            /\ info' \in InfoOutputs(env, actions')
            /\ next_observations_from' = step + 1
            /\ env' = [env EXCEPT !.true_state = out.true_state]
            /\ irregularities' = irregularities + IrregularRecords(env, out.obs)
                                                + IrregularForm(out.form)
            /\ next_observations' = out.obs
            /\ rewards' = [a \in Agents |-> [form |-> out.form, value |-> a + 1]]
            /\ done' = out.done
            /\ done_sequence' = Append(done_sequence, out.done)
            /\ total_rewards' = accumulate_rewards(total_rewards, rewards')
            /\ calls' = << Call("select_agent_actions", NoAgent),
                           [Call("env.step", NoAgent) EXCEPT !.state = out.true_state] >>
            /\ agent_id' = 0
            /\ locals' = [signal |-> NoSignal, next_signal |-> NoSignal]
            /\ pc' = "update_agents"
            /\ error' = error
    /\ UNCHANGED <<episode_records, combined_metrics, batch, encodings>>
    /\ UNCHANGED <<evaluation, evaluation_summary, quick_evaluation>>
    /\ UNCHANGED <<profile, args, episode, step, agents, replay_buffers, metrics,
                   episodic_metrics, observations, observations_from,
                   attention_weights_history, registered_states>>

\* ------------------------------------------- _update_agent_states, one agent
Extracted(err, sig, nsig) == [error |-> err, signal |-> sig, next_signal |-> nsig]

\* An extraction that falls back to the absolute background signal when an
\* increment is missing.
extract_signals_with_fallback(a, obs, nobs, loc) ==
    IF "signal" \in obs
    THEN IF "signal" \in nobs
         THEN Extracted("none", Signal(a, "signal", "current"), Signal(a, "signal", "next"))
         ELSE Extracted("KeyError", NoSignal, NoSignal)
    ELSE IF "background_signal" \in obs
    THEN IF "background_increment" \in obs /\ "background_increment" \in nobs
         THEN Extracted("none", Signal(a, "background_increment", "current"),
                                Signal(a, "background_increment", "next"))
         ELSE Extracted("none", Signal(a, "background_signal", "current"),
                                Signal(a, "background_signal", "next"))
    ELSE IF loc.signal = NoSignal
    THEN Extracted("UnboundLocalError", NoSignal, NoSignal)
    ELSE Extracted("none", loc.signal, loc.next_signal)

\* Lines 762-804: the signals read from the agent's observation pair.  A
\* record with neither "signal" nor "background_signal" assigns nothing: the
\* locals keep what an earlier iteration bound, or are unbound.
extract_signals(a, obs, nobs, loc) ==
    IF "signal" \in obs
    THEN IF "signal" \in nobs
         THEN Extracted("none", Signal(a, "signal", "current"), Signal(a, "signal", "next"))
         ELSE Extracted("KeyError", NoSignal, NoSignal)
    ELSE IF "background_signal" \in obs
    THEN IF "background_increment" \in obs /\ "background_increment" \in nobs
         THEN Extracted("none", Signal(a, "background_increment", "current"),
                                Signal(a, "background_increment", "next"))
         ELSE Extracted("ObservationProcessingError", NoSignal, NoSignal)
    ELSE IF loc.signal = NoSignal
    THEN Extracted("UnboundLocalError", NoSignal, NoSignal)
    ELSE Extracted("none", loc.signal, loc.next_signal)

\* Lines 840-844 and 855-859: the reward argument of infer_latent.  A value
\* that is not a float is subscripted with "total".
reward_for_infer_latent(rw) ==
    IF rw.form = "float"
    THEN [error |-> "none", value |-> rw.value]
    ELSE IF rw.form = "dict"
    THEN [error |-> "none", value |-> rw.value]
    ELSE [error |-> "TypeError", value |-> 0]

\* Lines 876-880: the reward stored in the transition.
reward_value(rw) == IF rw.form = "dict" THEN rw.value ELSE rw.value

\* Lines 845 and 860: the next-signal argument of infer_latent.
next_signal_for_infer_latent(training, sig, nsig) == IF training THEN nsig ELSE sig

\* Line 870: a transition is stored only in training, for an agent that
\* has a buffer.
stores_transition(training, a, buffers) == training /\ a \in DOMAIN buffers

\* A sampling condition that leaves the update interval out.
update_due_at_any_step(size, batch_size, st, update_interval) ==
    size > batch_size

\* Lines 907-910: the condition under which the buffer is sampled.
update_due(size, batch_size, st, update_interval) ==
    size > batch_size /\ st % update_interval = 0

\* What the belief network can return in this run.
ObserveOutcomes ==
    IF "belief" \in profile /\ irregularities < MaxIrregularities THEN Val ELSE {"ok"}

\* Lines 834 and 849: observe and infer_latent run inside torch.no_grad()
\* in evaluation only.
no_grad_context(training) == ~ training

\* A copy that aliases the agent's tensors: it shows what observe and
\* infer_latent left there.
detached_copy_aliased(ag, updated) ==
    [belief |-> updated.current_belief, belief_updates |-> updated.belief_updates,
     latent |-> updated.current_latent]

\* Lines 828-831: belief and latent are detached and cloned before observe;
\* the copy keeps the values the agent held then, whatever the agent holds
\* after the update.
detached_copy(ag, updated) ==
    [belief |-> ag.current_belief, belief_updates |-> ag.belief_updates,
     latent |-> ag.current_latent]

\* Line 885: the policy is queried once more for a continuous-action agent
\* of a continuous-action run.
requeries_policy(continuous_actions, ag) == continuous_actions /\ ag.continuous_actions

\* Lines 884-888: the action kept in the transition.
action_to_store(continuous_actions, ag, act) ==
    IF requeries_policy(continuous_actions, ag) THEN PolicyAllocation ELSE act

\* Line 887: the further policy query, made outside any torch.no_grad()
\* block.
policy_calls(continuous_actions, ag, a) ==
    IF requeries_policy(continuous_actions, ag)
    THEN << [Call("policy", a) EXCEPT !.no_grad = FALSE, !.action = PolicyAllocation] >>
    ELSE << >>

\* An error that is recorded while the episode is wound up as if it had
\* ended.
Raise_and_continue(err) ==
    /\ pc' = "summary"
    /\ error' = err

\* `raise`: the exception leaves _update_agent_states, _run_simulation, the
\* episode loop and run_agents, none of which has a handler.
Raise(err) ==
    /\ pc' = "raised"
    /\ error' = err

\* Lines 863-867: the belief distribution is recorded in either mode.
records_belief_distribution_in_training(training) == training

records_belief_distribution(training) == TRUE

\* Lines 890-904: the transition goes into self.replay_buffers[agent_id].
store_in_buffer_of_first_agent(buffers, a, capacity, transition) ==
    [buffers EXCEPT ![0] = store_transition_in_buffer(buffers[0], capacity, transition)]

store_in_buffer_of(buffers, a, capacity, transition) ==
    [buffers EXCEPT ![a] = store_transition_in_buffer(buffers[a], capacity, transition)]

\* What buffer.sample returns in this run: any batch when the run varies the
\* sampling, the newest records otherwise.
SampleOutputs(buffer, batch_size) ==
    {drawn \in sample(buffer, batch_size) :
        \/ "sampling" \in profile
        \/ drawn.error # "none"
        \/ drawn.batch = {buffer[i] : i \in (Len(buffer) - batch_size + 1) .. Len(buffer)}}

\* One iteration of the loop of _update_agent_states (lines 760-923).
UpdateAgent ==
    /\ pc = "update_agents"
    /\ agent_id < NumAgents
    /\ LET a == agent_id
           ag == agents[a]
           ex == extract_signals(a, observations[a], next_observations[a], locals)
           rw == reward_for_infer_latent(rewards[a])
       IN
       IF ex.error # "none"
       THEN /\ Raise(ex.error)
            /\ UNCHANGED <<agents, replay_buffers, metrics, calls, locals, agent_id,
                           irregularities, batch>>
       ELSE \E v \in ObserveOutcomes :
            LET observed == [ag EXCEPT !.current_belief = v,
                                       !.current_belief_distribution = v,
                                       !.belief_updates = @ + 1]
                inferred == [observed EXCEPT !.current_latent = @ + 1]
                copy == detached_copy(ag, inferred)
                observe_call == [Call("observe", a) EXCEPT
                                    !.signal = ex.signal,
                                    !.no_grad = no_grad_context(args.training)]
                infer_call == [Call("infer_latent", a) EXCEPT
                                  !.signal = ex.signal,
                                  !.reward = rw.value,
                                  !.next_signal = next_signal_for_infer_latent(
                                                      args.training, ex.signal, ex.next_signal),
                                  !.no_grad = no_grad_context(args.training)]
                stored_action == action_to_store(args.continuous_actions, inferred, actions[a])
                transition == [owner |-> a, belief |-> copy.belief,
                               reward |-> reward_value(rewards[a]), next_belief |-> v,
                               episode |-> episode, step |-> step,
                               belief_updates |-> copy.belief_updates,
                               next_belief_updates |-> inferred.belief_updates,
                               latent |-> copy.latent,
                               next_latent |-> inferred.current_latent,
                               action |-> stored_action]
                stored_buffers == store_in_buffer_of(replay_buffers, a,
                                                     args.buffer_capacity, transition)
                stored == stored_buffers[a]
                store_call == [Call("store", a) EXCEPT !.reward = transition.reward,
                                                       !.size = Len(stored),
                                                       !.action = stored_action]
                store_calls == policy_calls(args.continuous_actions, inferred, a)
                               \o << store_call >>
                updating == update_due(Len(stored), args.batch_size, step,
                                       args.update_interval)
                storing == stores_transition(args.training, a, replay_buffers)
            IN
            /\ irregularities' = IF v = "ok" THEN irregularities ELSE irregularities + 1
            /\ locals' = [signal |-> ex.signal, next_signal |-> ex.next_signal]
            /\ IF rw.error # "none"
               THEN /\ Raise(rw.error)
                    /\ agents' = [agents EXCEPT ![a] = observed]
                    /\ calls' = Append(calls, observe_call)
                    /\ UNCHANGED <<replay_buffers, metrics, agent_id, batch>>
               ELSE \E drawn \in (IF storing /\ updating
                                  THEN SampleOutputs(stored, args.batch_size)
                                  ELSE {Sampled("none", batch)}) :
                    /\ metrics' = IF records_belief_distribution(args.training)
                                  THEN [metrics EXCEPT !.belief_distributions[a] =
                                           Append(@, inferred.current_belief_distribution)]
                                  ELSE metrics
                    /\ batch' = drawn.batch
                    /\ IF storing
                       THEN /\ replay_buffers' = stored_buffers
                            /\ IF updating
                               THEN /\ agents' = [agents EXCEPT ![a] =
                                           IF drawn.error = "none"
                                           THEN [inferred EXCEPT !.updates = @ + 1]
                                           ELSE inferred]
                                    /\ calls' = calls \o << observe_call, infer_call >>
                                         \o store_calls \o
                                         << [Call("sample", a) EXCEPT !.size = Len(stored)] >>
                                         \o (IF drawn.error = "none"
                                             THEN << Call("update", a) >>
                                             ELSE << >>)
                               ELSE /\ agents' = [agents EXCEPT ![a] = inferred]
                                    /\ calls' = calls \o << observe_call, infer_call >>
                                         \o store_calls
                       ELSE /\ agents' = [agents EXCEPT ![a] = inferred]
                            /\ calls' = calls \o << observe_call, infer_call >>
                            /\ UNCHANGED replay_buffers
                    /\ IF drawn.error # "none"
                       THEN /\ Raise(drawn.error)
                            /\ UNCHANGED agent_id
                       ELSE /\ agent_id' = a + 1
                            /\ pc' = IF a + 1 < NumAgents THEN "update_agents"
                                                         ELSE "finish_step"
                            /\ error' = error
    /\ UNCHANGED <<episode_records, combined_metrics, encodings>>
    /\ UNCHANGED <<evaluation, evaluation_summary, quick_evaluation>>
    /\ UNCHANGED <<profile, args, env, episode, step, episodic_metrics, observations,
                   next_observations, rewards, done, done_sequence, total_rewards,
                   actions, action_probs, info, observations_from, next_observations_from,
                   attention_weights_history, registered_states>>

\* ------------------------------------------------ _handle_si_state_changes
\* A handler that archives the trackers before the new task is set on them.
handle_si_agent_archive_first(ag, s) ==
    IF ag.use_si
    THEN LET fresh == s \notin ag.seen_true_states
             belief_si == IF fresh THEN set_task(register_task(ag.belief_si), s)
                                   ELSE ag.belief_si
             policy_si == IF fresh THEN set_task(register_task(ag.policy_si), s)
                                   ELSE ag.policy_si
         IN [ag EXCEPT !.belief_si = belief_si,
                       !.policy_si = policy_si,
                       !.state_belief_si_trackers =
                           IF fresh THEN (s :> register_task(ag.belief_si)) @@ @ ELSE @,
                       !.state_policy_si_trackers =
                           IF fresh THEN (s :> register_task(ag.policy_si)) @@ @ ELSE @,
                       !.seen_true_states = @ \cup {s},
                       !.current_true_state = s]
    ELSE ag

\* The body of the loop of _handle_si_state_changes for one agent
\* (lines 715-748).
handle_si_agent(ag, s) ==
    IF ag.use_si
    THEN LET fresh == s \notin ag.seen_true_states
             belief_si == IF fresh THEN set_task(register_task(ag.belief_si), s)
                                   ELSE ag.belief_si
             policy_si == IF fresh THEN set_task(register_task(ag.policy_si), s)
                                   ELSE ag.policy_si
         IN [ag EXCEPT !.belief_si = belief_si,
                       !.policy_si = policy_si,
                       !.state_belief_si_trackers =
                           IF fresh THEN (s :> belief_si) @@ @ ELSE @,
                       !.state_policy_si_trackers =
                           IF fresh THEN (s :> policy_si) @@ @ ELSE @,
                       !.seen_true_states = @ \cup {s},
                       !.current_true_state = s]
    ELSE ag

handle_si_calls(ag, a, s) ==
    IF ag.use_si /\ s \notin ag.seen_true_states
    THEN << Call("belief_si.register_task", a),
            Call("policy_si.register_task", a),
            [Call("belief_si.set_task", a) EXCEPT !.state = s],
            [Call("policy_si.set_task", a) EXCEPT !.state = s],
            [Call("archive", a) EXCEPT !.state = s],
            [Call("seen_true_states.add", a) EXCEPT !.state = s] >>
    ELSE IF ag.use_si
    THEN << [Call("seen_true_states.add", a) EXCEPT !.state = s] >>
    ELSE << >>

\* Trainer._handle_si_state_changes: guarded by args.use_si.
handle_si_state_changes(ags, a_args, s) ==
    IF a_args.use_si
    THEN [a \in DOMAIN ags |-> handle_si_agent(ags[a], s)]
    ELSE ags

handle_si_state_changes_calls(ags, a_args, s) ==
    IF a_args.use_si
    THEN ConcatOver([a \in Agents |-> handle_si_calls(ags[a], a, s)], 0, NumAgents - 1)
    ELSE << >>

\* A handler that also runs in evaluation.
si_handler_due_in_any_mode(training, d) == d

\* Lines 394-396: the handler runs when the environment says done, in
\* training.
si_handler_due(training, d) == d /\ training

\* A loop that does not break on done.
episode_ends_ignoring_done(d, st, horizon) == st + 1 >= horizon

\* Lines 330 and 394-397: the simulation loop ends on done or when the
\* horizon is exhausted.
episode_ends(d, st, horizon) == d \/ st + 1 >= horizon

\* ------------------------------------------ _capture_attention_weights
\* What the inference modules of the agents can do in one step: each yields
\* a matrix, or, in a bounded number of steps of a run whose attention
\* weights vary, each does one of the things a module can do.
RegularAttention == [a \in Agents |-> "matrix"]

AttentionOutputs(budget) ==
    IF "attention" \in profile /\ budget > 0
    THEN [Agents -> AttentionOutcomes]
    ELSE {RegularAttention}

IrregularAttention(outcomes) == IF outcomes = RegularAttention THEN 0 ELSE 1

\* A capture that takes weights for a matrix.
yields_matrix_or_weights(outcome) == outcome \in {"matrix", "no_edge_index", "no_matrix"}

\* Lines 555-571, the body for one agent: a matrix is returned when the
\* module has weights, an edge index and a matrix that is not None; an
\* exception is swallowed and the loop goes on.
yields_matrix(outcome) == outcome = "matrix"

RECURSIVE capture_from(_, _)
\* Lines 554-575: the first agent, in iteration order from a, whose module
\* yields a matrix; NoAgent (None) when no agent does.
capture_from(outcomes, a) ==
    IF a >= NumAgents
    THEN NoAgent
    ELSE IF yields_matrix(outcomes[a]) THEN a ELSE capture_from(outcomes, a + 1)

\* Trainer._capture_attention_weights: a matrix is identified by the agent
\* it came from.
capture_attention_weights(outcomes) == capture_from(outcomes, 0)

\* The modules queried by one capture, with what each did.
capture_calls(outcomes) ==
    LET last == IF capture_attention_weights(outcomes) = NoAgent
                THEN NumAgents - 1
                ELSE capture_attention_weights(outcomes)
    IN ConcatOver([a \in Agents |->
                      IF a <= last
                      THEN << [Call("get_attention_weights", a) EXCEPT
                                  !.outcome = outcomes[a]] >>
                      ELSE << >>], 0, NumAgents - 1)

\* Lines 359-361: a capture that is not None is appended to the history.
append_attention(history, captured) ==
    IF captured # NoAgent THEN Append(history, captured) ELSE history

\* ------------------------------------------------- allocations in info
\* An allocation read from the first entry of the vector.
allocation_from_first_entry(probs) ==
    IF Len(probs) >= 2 THEN probs[1] ELSE FallbackAllocation

\* Lines 378-383: the probability of action index 1 (the second entry), or
\* the fallback for a vector with fewer than 2 entries.
allocation_from_probs(probs) ==
    IF Len(probs) >= 2 THEN probs[2] ELSE FallbackAllocation

\* Lines 366-384: the allocations entry of info for an environment with
\* safe_payoff; info is left alone for the other variant.
add_allocations(e, a_args, inf, acts, probs) ==
    IF e.safe_payoff
    THEN IF a_args.continuous_actions
         THEN IF inf.allocations_given
              THEN inf
              ELSE [allocations_given |-> TRUE, allocations |-> acts]
         ELSE [allocations_given |-> TRUE,
               allocations |-> [a \in DOMAIN probs |-> allocation_from_probs(probs[a])]]
    ELSE inf

\* The states that trigger register_task in a run of the handler.
newly_registered(ags, a_args, s) ==
    [a \in DOMAIN ags |->
        IF a_args.use_si /\ ags[a].use_si /\ s \notin ags[a].seen_true_states
        THEN {s} ELSE {}]

\* A loop that keeps reading the observations it started with.
observations_for_next_step_stale(obs, nobs) == obs

\* Line 364: observations = next_observations.
observations_for_next_step(obs, nobs) == nobs

\* ------------------------------------- _run_simulation: tail of a step
\* Lines 358-397: attention capture, observations advance, allocations,
\* metrics_tracker.update, the done check with the SI handler.
FinishStep ==
    /\ pc = "finish_step"
    /\ \E outcomes \in AttentionOutputs(MaxIrregularities - irregularities) :
         /\ irregularities' = irregularities + IrregularAttention(outcomes)
         /\ attention_weights_history' =
                append_attention(attention_weights_history,
                                 capture_attention_weights(outcomes))
         /\ calls' = calls \o capture_calls(outcomes)
                      \o << Call("metrics_tracker.update", NoAgent) >>
                      \o (IF si_handler_due(args.training, done)
                          THEN handle_si_state_changes_calls(agents, args, env.true_state)
                          ELSE << >>)
    /\ observations' = observations_for_next_step(observations, next_observations)
    /\ observations_from' = observations_for_next_step(observations_from,
                                                       next_observations_from)
    /\ info' = add_allocations(env, args, info, actions, action_probs)
    /\ metrics' = [metrics EXCEPT !.step_records = @ + 1,
                                  !.step_entries =
                                      Append(@, [episode |-> episode, step |-> step])]
    /\ IF si_handler_due(args.training, done)
       THEN /\ agents' = handle_si_state_changes(agents, args, env.true_state)
            /\ registered_states' =
                   [a \in Agents |->
                       registered_states[a]
                       \cup newly_registered(agents, args, env.true_state)[a]]
       ELSE /\ agents' = agents
            /\ registered_states' = registered_states
    /\ IF episode_ends(done, step, args.horizon)
       THEN pc' = "summary" /\ step' = step
       ELSE pc' = "select" /\ step' = step + 1
    /\ UNCHANGED <<episode_records, combined_metrics, batch, encodings>>
    /\ UNCHANGED <<evaluation, evaluation_summary, quick_evaluation>>
    /\ UNCHANGED <<profile, args, env, episode, agent_id, replay_buffers, episodic_metrics,
                   next_observations, rewards, done, done_sequence, total_rewards,
                   locals, error, actions, action_probs, next_observations_from>>

\* The fields of an observation record, as the keys of the mapping.
fields_of(obs) ==
    SelectSeq(<<"signal", "neighbor_actions", "background_signal",
                "background_increment", "neighbor_allocations">>,
              LAMBDA f : f \in obs)

\* The raw metrics mapping _run_simulation returns (lines 399-415): what the
\* trainer itself has written into the store.  The elapsed time is not
\* modelled: every episode takes one unit.
raw_metrics(m) ==
    [k \in {"belief_distributions", "episode_time", "total_rewards", "final_observations"}
            \cup (IF m.attention_weights # << >> THEN {"attention_weights"} ELSE {}) |->
        CASE k = "belief_distributions" -> agent_lists(Agents, m.belief_distributions)
          [] k = "episode_time" -> scalar(1, 1)
          [] k = "total_rewards" -> agent_scalars(Agents, m.total_rewards, 1)
          [] k = "final_observations" ->
                 nested(Agents, [a \in Agents |-> fields_of(m.final_observations[a])])
          [] OTHER -> flat_list(m.attention_weights)]

\* --------------------------------------------- _run_simulation: DONE
\* Lines 399-415 and the append of the episode loop (147 / 180).
Summary ==
    /\ pc = "summary"
    /\ metrics' = [metrics EXCEPT !.summary_writes = @ + 1,
                                  !.total_rewards = total_rewards,
                                  !.final_observations = observations,
                                  !.attention_weights =
                                      IF attention_weights_history # << >>
                                      THEN attention_weights_history
                                      ELSE @]
    /\ episodic_metrics' = Append(episodic_metrics, metrics')
    /\ episode_records' = Append(episode_records, raw_metrics(metrics'))
    /\ episode' = episode + 1
    /\ pc' = IF episode + 1 < args.num_episodes THEN "episode_start" ELSE "process_results"
    /\ UNCHANGED <<profile, args, env, step, agent_id, agents, replay_buffers, observations,
                   next_observations, rewards, done, done_sequence, total_rewards,
                   locals, error, calls, irregularities,
                   actions, action_probs, info, observations_from, next_observations_from,
                   attention_weights_history, registered_states, combined_metrics, batch,
                   encodings>>
    /\ UNCHANGED <<evaluation, evaluation_summary, quick_evaluation>>

\* The part of an episode's entry under a key that flattening strings
\* together for agent a: the agent's list, the flat list, or the agent's
\* number as a list of one.
sequence_of(ep, key, a) ==
    IF key \notin DOMAIN ep
    THEN Extended("none", << >>)
    ELSE LET v == ep[key]
         IN  CASE v.shape = "list" -> Extended("none", v.list)
               [] v.shape = "agent_lists" -> Extended("none", v.lists[a])
               [] v.shape = "agent_scalars" /\ a \in v.ids ->
                      Extended("none", <<v.numbers[a]>>)
               [] OTHER -> Extended("none", << >>)

\* All per-episode sequences of a key, concatenated in episode order.
flattened(episodes, key, a) ==
    extend_over([e \in 1 .. Len(episodes) |-> sequence_of(episodes[e], key, a)],
                Len(episodes)).items

\* flatten_episodic_metrics(episodic_metrics, num_agents): every key that
\* holds sequences gets the concatenation of its per-episode sequences, per
\* agent where the key maps agent ids to sequences.
flatten_episodic_metrics(episodes) ==
    LET keys == UNION {DOMAIN episodes[e] : e \in 1 .. Len(episodes)}
        shape(k) == episodes[CHOOSE e \in 1 .. Len(episodes) :
                                /\ k \in DOMAIN episodes[e]
                                /\ \A d \in 1 .. e - 1 : k \notin DOMAIN episodes[d]][k].shape
    IN  Combined("none",
            [k \in {j \in keys : shape(j) \in {"list", "agent_lists", "agent_scalars"}} |->
                IF shape(k) = "list"
                THEN flat_list(flattened(episodes, k, 0))
                ELSE agent_lists(Agents, [a \in Agents |-> flattened(episodes, k, a)])])

\* _process_training_results (line 240) / _process_evaluation_results (line
\* 188): the episodes are combined and the run returns.
process_results_by_aggregation(training, episodes) ==
    aggregate_episode_results(episodes)

process_results(training, episodes) ==
    IF training
    THEN flatten_episodic_metrics(episodes)
    ELSE aggregate_episode_results(episodes)

\* np.min / np.max of a non-empty list.
min_of(values) == CHOOSE n \in Elements(values) : \A k \in Elements(values) : n <= k
max_of(values) == CHOOSE n \in Elements(values) : \A k \in Elements(values) : n >= k

\* Trainer._calculate_evaluation_summary, lines 480-506: the number of
\* episodes and, for each agent, mean, min and max of its total rewards over
\* the episodes that have total_rewards.  (The standard deviation is left
\* out, as is the action accuracy: the episode records held here carry only
\* the keys the trainer itself writes.)
calculate_evaluation_summary(episodes) ==
    LET with == SelectSeq(episodes, LAMBDA ep : "total_rewards" \in DOMAIN ep)
        rewards_of(a) == [i \in 1 .. Len(with) |-> total_reward_of(with[i], a)]
    IN  [computed |-> TRUE,
         num_episodes |-> Len(episodes),
         reward_statistics |->
             [a \in Agents |->
                 IF episodes # << >> /\ "total_rewards" \in DOMAIN episodes[1]
                       /\ rewards_of(a) # << >>
                 THEN [mean |-> mean(rewards_of(a)), min |-> min_of(rewards_of(a)),
                       max |-> max_of(rewards_of(a))]
                 ELSE NoSummary.reward_statistics[a]]]

ProcessResults ==
    /\ pc = "process_results"
    /\ LET result == process_results(args.training, episode_records)
       IN  /\ combined_metrics' = result.value
           /\ evaluation_summary' = IF args.training \/ result.error # "none"
                                    THEN evaluation_summary
                                    ELSE calculate_evaluation_summary(episode_records)
           /\ IF result.error # "none"
              THEN Raise(result.error)
              ELSE /\ pc' = "returned"
                   /\ UNCHANGED error
    /\ UNCHANGED <<profile, args, env, episode, step, agent_id, agents, replay_buffers, metrics,
                   episodic_metrics, observations, next_observations, rewards, done,
                   done_sequence, total_rewards, locals, calls, irregularities,
                   actions, action_probs, info, observations_from, next_observations_from,
                   attention_weights_history, registered_states, episode_records, batch,
                   encodings, evaluation, quick_evaluation>>

\* batch = self.replay_buffers[agent_id].sample(self.args.batch_size), line
\* 912, on its own.
DrawSample ==
    /\ pc = "sample"
    /\ \E drawn \in SampleOutputs(replay_buffers[agent_id], args.batch_size) :
         /\ batch' = drawn.batch
         /\ IF drawn.error # "none"
            THEN Raise(drawn.error)
            ELSE /\ pc' = "sampled"
                 /\ UNCHANGED error
    /\ UNCHANGED <<profile, args, env, episode, step, agent_id, agents, replay_buffers, metrics,
                   episodic_metrics, observations, next_observations, rewards, done,
                   done_sequence, total_rewards, locals, calls, irregularities,
                   actions, action_probs, info, observations_from, next_observations_from,
                   attention_weights_history, registered_states, episode_records,
                   combined_metrics, encodings>>
    /\ UNCHANGED <<evaluation, evaluation_summary, quick_evaluation>>

\* The two encode_observation calls of lines 810-825, on their own.
Encode ==
    /\ pc = "encode"
    /\ encodings' =
           [encodings EXCEPT
               !.actions_encoded =
                   encode_neighbor_actions(encodings.neighbor_actions, NumAgents,
                                           args.continuous_actions),
               !.next_actions_encoded =
                   encode_neighbor_actions(encodings.next_neighbor_actions, NumAgents,
                                           args.continuous_actions)]
    /\ pc' = "encoded"
    /\ UNCHANGED <<profile, args, env, episode, step, agent_id, agents, replay_buffers, metrics,
                   episodic_metrics, observations, next_observations, rewards, done,
                   done_sequence, total_rewards, locals, error, calls, irregularities,
                   actions, action_probs, info, observations_from, next_observations_from,
                   attention_weights_history, registered_states, episode_records,
                   combined_metrics, batch>>
    /\ UNCHANGED <<evaluation, evaluation_summary, quick_evaluation>>

\* ----------------------------------------------------------- evaluate
\* Trainer.evaluate, lines 1112-1128: the requested values, or those of
\* args, are written into args after the originals have been put aside; then
\* run_agents(training=False) is entered.
evaluate ==
    /\ pc = "evaluate"
    /\ LET num_episodes == evaluation.num_episodes
           num_steps == evaluation.num_steps
           eval_episodes == IF num_episodes.given THEN num_episodes.value
                                                  ELSE args.num_episodes
           eval_steps == IF num_steps.given THEN num_steps.value ELSE args.horizon
       IN    /\ evaluation' = [evaluation EXCEPT !.active = TRUE,
                                                   !.original_episodes = args.num_episodes,
                                                   !.original_horizon = args.horizon,
                                                   !.eval_episodes = eval_episodes,
                                                   !.eval_steps = eval_steps]
             /\ args' = [args EXCEPT !.num_episodes = eval_episodes,
                                     !.horizon = eval_steps,
                                     !.training = FALSE]
    /\ pc' = "constructed"
    /\ UNCHANGED <<profile, env, episode, step, agent_id, agents, replay_buffers, metrics,
                   episodic_metrics, observations, next_observations, rewards, done,
                   done_sequence, total_rewards, locals, error, calls, irregularities,
                   actions, action_probs, info, observations_from, next_observations_from,
                   attention_weights_history, registered_states, episode_records,
                   combined_metrics, batch, encodings, evaluation_summary,
                   quick_evaluation>>

\* temp_tracker.prepare_for_serialization(learning_rates, theoretical_bounds,
\* horizon): the keys of the mapping it returns, which are the tracker's
\* metrics and what it is handed.
prepare_for_serialization(tracked) ==
    DOMAIN tracked \cup {"learning_rates", "theoretical_bounds", "episode_length"}

\* Line 1139: serializable_metrics.get("evaluation_summary", {}).
summary_returned(serializable_metrics, computed) ==
    IF "evaluation_summary" \in serializable_metrics THEN computed ELSE NoSummary

\* A finally clause that is skipped when the run raises.
restored_args_on_return(a_args, ev, raised) ==
    IF raised
    THEN a_args
    ELSE [a_args EXCEPT !.num_episodes = ev.original_episodes,
                        !.horizon = ev.original_horizon]

\* Lines 1143-1146: the finally clause puts the originals back.
restored_args(a_args, ev, raised) ==
    [a_args EXCEPT !.num_episodes = ev.original_episodes,
                   !.horizon = ev.original_horizon]

\* Lines 1130-1146: run_agents has returned or raised; the result mapping is
\* built in the first case, and the finally clause runs in both.
evaluate_finally ==
    /\ evaluation.active
    /\ pc \in {"returned", "raised"}
    /\ args' = restored_args(args, evaluation, pc = "raised")
    /\ evaluation' =
           [evaluation EXCEPT
               !.active = FALSE,
               !.returned = (pc = "returned"),
               !.result =
                   IF pc = "returned"
                   THEN [evaluation_summary |->
                             summary_returned(prepare_for_serialization(combined_metrics),
                                              evaluation_summary),
                         num_episodes |-> evaluation.eval_episodes,
                         steps_per_episode |-> evaluation.eval_steps]
                   ELSE NoResult]
    /\ pc' = IF pc = "returned" THEN "evaluated" ELSE pc
    /\ UNCHANGED <<profile, env, episode, step, agent_id, agents, replay_buffers, metrics,
                   episodic_metrics, observations, next_observations, rewards, done,
                   done_sequence, total_rewards, locals, error, calls, irregularities,
                   actions, action_probs, info, observations_from, next_observations_from,
                   attention_weights_history, registered_states, episode_records,
                   combined_metrics, batch, encodings, evaluation_summary,
                   quick_evaluation>>

\* ----------------------------------------------------- quick_evaluate
\* Lines 1047-1055: the agents of the run before are put into evaluation
\* mode, the environment is initialized and the counters are zeroed.
quick_evaluate ==
    /\ pc = "returned"
    /\ ~ evaluation.active
    /\ \E num_steps \in 1 .. MaxHorizon, s \in States,
          obs \in InitialObservations(env, MaxIrregularities - irregularities) :
         /\ quick_evaluation' = [NoQuickEvaluation EXCEPT !.num_steps = num_steps]
         /\ env' = [env EXCEPT !.true_state = s]
         /\ irregularities' = irregularities + IrregularRecords(env, obs)
         /\ observations' = obs
         /\ calls' = << [Call("env.initialize", NoAgent) EXCEPT !.state = s] >>
    /\ agents' = set_agents_mode(agents, "eval")
    /\ total_rewards' = [a \in Agents |-> 0]
    /\ step' = 0
    /\ done' = FALSE
    /\ done_sequence' = << >>
    /\ observations_from' = 0
    /\ pc' = "quick_step"
    /\ UNCHANGED <<profile, args, episode, agent_id, replay_buffers, metrics,
                   episodic_metrics, next_observations, rewards, locals, error,
                   actions, action_probs, info, next_observations_from,
                   attention_weights_history, registered_states, episode_records,
                   combined_metrics, batch, encodings, evaluation, evaluation_summary>>

\* Lines 1072-1076: an action counts as correct when it equals the true
\* state the environment has after the step.
counted_correct(correct_actions, acts, true_state) ==
    [a \in Agents |->
        IF acts[a].value = true_state THEN correct_actions[a] + 1 ELSE correct_actions[a]]

\* Lines 1057-1081: one iteration of the loop of quick_evaluate.
QuickStep ==
    /\ pc = "quick_step"
    /\ \E acts \in [Agents -> ActionsOf(args)],
          out \in StepOutputs(env, MaxIrregularities - irregularities) :
         /\ actions' = acts
         /\ env' = [env EXCEPT !.true_state = out.true_state]
         /\ irregularities' = irregularities + IrregularRecords(env, out.obs)
                                             + IrregularForm(out.form)
         /\ next_observations' = out.obs
         /\ next_observations_from' = step + 1
         /\ observations' = out.obs
         /\ observations_from' = step + 1
         /\ rewards' = [a \in Agents |-> [form |-> out.form, value |-> a + 1]]
         /\ total_rewards' = [a \in Agents |-> total_rewards[a] + reward_value(rewards'[a])]
         /\ quick_evaluation' =
                [quick_evaluation EXCEPT
                    !.correct_actions = counted_correct(@, acts, out.true_state)]
         /\ done' = out.done
         /\ done_sequence' = Append(done_sequence, out.done)
         /\ calls' = calls \o << Call("select_agent_actions", NoAgent),
                                  [Call("env.step", NoAgent) EXCEPT !.state = out.true_state] >>
         /\ IF out.done \/ step + 1 >= quick_evaluation.num_steps
            THEN /\ pc' = "quick_results"
                 /\ step' = step
            ELSE /\ pc' = "quick_step"
                 /\ step' = step + 1
    /\ UNCHANGED <<profile, args, episode, agent_id, agents, replay_buffers, metrics,
                   episodic_metrics, locals, error, action_probs, info,
                   attention_weights_history, registered_states, episode_records,
                   combined_metrics, batch, encodings, evaluation, evaluation_summary>>

\* Lines 1092-1095: correct_actions[i] / num_steps, kept as the exact
\* quotient.
action_accuracy(correct, num_steps) == [sum |-> correct, over |-> num_steps]

\* Lines 1083-1098: the results mapping.
QuickResults ==
    /\ pc = "quick_results"
    /\ quick_evaluation' =
           [quick_evaluation EXCEPT
               !.returned = TRUE,
               !.total_rewards = total_rewards,
               !.action_accuracy =
                   [a \in Agents |->
                       action_accuracy(quick_evaluation.correct_actions[a],
                                       quick_evaluation.num_steps)]]
    /\ pc' = "quick_returned"
    /\ UNCHANGED <<profile, args, env, episode, step, agent_id, agents, replay_buffers,
                   metrics, episodic_metrics, observations, next_observations, rewards,
                   done, done_sequence, total_rewards, locals, error, calls,
                   irregularities, actions, action_probs, info, observations_from,
                   next_observations_from, attention_weights_history, registered_states,
                   episode_records, combined_metrics, batch, encodings, evaluation,
                   evaluation_summary>>

Next ==
    \/ run_agents
    \/ EpisodeStart
    \/ SelectStep
    \/ UpdateAgent
    \/ FinishStep
    \/ Summary
    \/ ProcessResults

Spec == Init /\ [][Next]_vars

SpecRegular == InitRegular /\ [][Next]_vars

SpecVaried == InitVaried /\ [][Next]_vars

SpecFaulty == InitFaulty /\ [][Next]_vars

SpecSampled == InitSampled /\ [][Next]_vars

SpecResults == InitResults /\ [][ProcessResults]_vars

SpecSample == InitSample /\ [][DrawSample]_vars

SpecEncode == InitEncode /\ [][Encode]_vars

\* A trainer whose evaluate is called, and one whose quick_evaluate is
\* called after a run.
NextEvaluate == evaluate \/ Next \/ evaluate_finally

SpecEvaluate == InitEvaluate /\ [][NextEvaluate]_vars

NextQuick == Next \/ quick_evaluate \/ QuickStep \/ QuickResults

SpecQuick == InitQuick /\ [][NextQuick]_vars

TypeOK ==
    /\ pc \in {"constructed", "episode_start", "select", "update_agents", "finish_step",
               "summary", "process_results", "returned", "raised", "sample", "sampled",
               "encode", "encoded", "evaluate", "evaluated", "quick_step",
               "quick_results", "quick_returned"}
    /\ error \in {"none", "InvalidBeliefDistributionError", "ObservationProcessingError",
                  "TypeError", "UnboundLocalError", "KeyError", "IndexError",
                  "InsufficientDataError"}
    /\ (pc = "raised") <=> (error # "none")

\* ================================================================ claims
Returned == pc \in {"process_results", "returned"} \/ (pc = "episode_start" /\ episode > 0)
InStep == pc \in {"update_agents", "finish_step"}
Processed(a) == InStep /\ a < agent_id

DoneSteps == {i \in 1 .. Len(done_sequence) : done_sequence[i]}
FirstDone == CHOOSE i \in DoneSteps : \A j \in DoneSteps : i <= j

\* C1: when _run_simulation has returned, the episode holds exactly horizon
\* step records, or exactly the steps up to and including the first step at
\* which env.step returned done; it holds fewer than horizon records iff done
\* was returned at a step before the last one; and the summary was written
\* exactly once, for this episode and for every episode appended before it.
C1_StepRecordsAndSummary ==
    Returned =>
        /\ metrics.step_records = IF DoneSteps = {} THEN args.horizon ELSE FirstDone
        /\ (metrics.step_records < args.horizon) <=>
               (\E i \in DoneSteps : i < args.horizon)
        /\ metrics.summary_writes = 1
        /\ \A k \in 1 .. Len(episodic_metrics) :
               /\ episodic_metrics[k].summary_writes = 1
               /\ episodic_metrics[k].step_records \in 1 .. args.horizon

\* C1 witness: a run returned whose first episode ran the full horizon and
\* whose second episode was cut short by done.
C1_Witness ==
    /\ pc = "returned"
    /\ Len(episodic_metrics) = 2
    /\ args.horizon > 1
    /\ episodic_metrics[1].step_records = args.horizon
    /\ episodic_metrics[2].step_records < args.horizon
    /\ episodic_metrics[2].summary_writes = 1

\* C2: a step that starts while some agent's current belief distribution
\* contains a NaN raises InvalidBeliefDistributionError, for either
\* environment variant, in training and in evaluation.
C2_NaNBeliefRaises ==
    [][(pc = "select" /\ \E a \in DOMAIN agents :
                            agents[a].current_belief_distribution = "nan")
       => (pc' = "raised" /\ error' = "InvalidBeliefDistributionError")]_vars

\* C3: no belief containing NaN or Inf is held by the metrics store's
\* belief_distributions or by a transition of a replay buffer, as pre-belief
\* or as next-belief.
C3_NoInvalidBeliefRecorded ==
    /\ \A a \in Agents : \A i \in 1 .. Len(metrics.belief_distributions[a]) :
           metrics.belief_distributions[a][i] = "ok"
    /\ \A a \in DOMAIN replay_buffers : \A i \in 1 .. Len(replay_buffers[a]) :
           /\ replay_buffers[a][i].belief = "ok"
           /\ replay_buffers[a][i].next_belief = "ok"

\* The agent's current observation is of the strategic-experimentation
\* variant and an increment is missing from it or from the next one.
IncrementMissing(a) ==
    /\ "signal" \notin observations[a]
    /\ "background_signal" \in observations[a]
    /\ \/ "background_increment" \notin observations[a]
       \/ "background_increment" \notin next_observations[a]

C5_RewardFormsUniform ==
    /\ error # "TypeError"
    /\ \A a \in Agents :
           Processed(a) =>
               /\ \E i \in CallsOf("infer_latent", a) : calls[i].reward = rewards[a].value
               /\ \A i \in CallsOf("store", a) : calls[i].reward = rewards[a].value

\* C6: in a training step, for every agent already processed, the buffer
\* was sampled once and agent.update invoked once if, with this step's
\* transition stored, len(buffer) > batch_size and step mod update_interval
\* = 0, and neither was invoked otherwise; no sample call saw a buffer of
\* at most batch_size records.
C6_UpdateExactlyWhenDue ==
    (args.training /\ InStep) =>
        /\ \A a \in Agents :
               Processed(a) =>
                   LET due == /\ Len(replay_buffers[a]) > args.batch_size
                              /\ step % args.update_interval = 0
                       n == IF due THEN 1 ELSE 0
                   IN /\ Cardinality(CallsOf("store", a)) = 1
                      /\ Cardinality(CallsOf("sample", a)) = n
                      /\ Cardinality(CallsOf("update", a)) = n
        /\ \A i \in CallsNamed("sample") : calls[i].size > args.batch_size

\* C6 witness: in one step of a later episode an agent was updated, while
\* the buffer it sampled was full.
C6_Witness ==
    /\ args.training
    /\ pc = "finish_step"
    /\ episode > 0
    /\ \A a \in Agents : CallsOf("update", a) # {}
    /\ Len(replay_buffers[0]) = args.buffer_capacity

TrainingOnlyOps ==
    {"store", "sample", "update", "archive", "belief_si.set_task", "policy_si.set_task",
     "belief_si.register_task", "policy_si.register_task"}

\* C7: in an evaluation run no transition is pushed, no buffer is sampled,
\* agent.update is never invoked and no continual-learning hook is invoked:
\* no such call is made, no buffer exists or grows, and every agent's task
\* state is as constructed.
C7_EvaluationFrame ==
    (~ args.training) =>
        /\ \A i \in 1 .. Len(calls) : calls[i].op \notin TrainingOnlyOps
        /\ replay_buffers = << >>
        /\ \A a \in DOMAIN agents :
               /\ agents[a].updates = 0
               /\ agents[a].seen_true_states = {}
               /\ agents[a].current_true_state = NoState
               /\ agents[a].belief_si = NewTracker
               /\ agents[a].policy_si = NewTracker
               /\ DOMAIN agents[a].state_belief_si_trackers = {}

\* C7 witness: an evaluation run with SI-enabled agents returned after two
\* episodes, the last of which ended with done.
C7_Witness ==
    /\ ~ args.training
    /\ args.use_si
    /\ pc = "returned"
    /\ Len(episodic_metrics) = 2
    /\ done
    /\ \A a \in Agents : Len(metrics.belief_distributions[a]) > 0

\* The number of register_task calls agent a's trackers have received.
Registered(ag) == ag.belief_si.registered + ag.policy_si.registered

\* C8: in training with continual learning, the tail of a step registers
\* the task on an agent's trackers exactly when the environment's true state
\* is a value not in the agent's seen-set, also in a step that does not end
\* the episode, and never for the state assigned at INIT that has not
\* changed.
C8_RegisterExactlyOnUnseen ==
    [][(pc = "finish_step" /\ args.training /\ args.use_si)
       => \A a \in Agents :
              LET unseen == env.true_state \notin agents[a].seen_true_states
                  unchanged == env.true_state = agents[a].current_true_state
                  registers == Registered(agents'[a]) > Registered(agents[a])
              IN /\ (unseen /\ ~ unchanged) => registers
                 /\ registers => (unseen /\ ~ unchanged)]_vars

\* C9: when INIT of a training episode with continual learning is over,
\* every SI-enabled agent has current_true_state and the task of both
\* trackers equal to env.true_state, each set by one set_task call, and
\* register_task was not invoked.
C9_InitSetsTask ==
    (pc = "select" /\ step = 0 /\ args.training /\ args.use_si) =>
        \A a \in Agents :
            agents[a].use_si =>
                /\ agents[a].current_true_state = env.true_state
                /\ agents[a].belief_si.task = env.true_state
                /\ agents[a].policy_si.task = env.true_state
                /\ Registered(agents[a]) = 0
                /\ \E i \in CallsOf("belief_si.set_task", a) : calls[i].state = env.true_state
                /\ \E i \in CallsOf("policy_si.set_task", a) : calls[i].state = env.true_state
                /\ Cardinality(CallsOf("belief_si.set_task", a)) = 1
                /\ Cardinality(CallsOf("policy_si.set_task", a)) = 1
                /\ CallsOf("belief_si.register_task", a) = {}
                /\ CallsOf("policy_si.register_task", a) = {}

\* C9 witness: INIT of the second training episode is over and the task is
\* a true state other than the one of the first episode's end.
C9_Witness ==
    /\ pc = "select"
    /\ step = 0
    /\ episode = 1
    /\ args.training
    /\ args.use_si
    /\ env.true_state = 1
    /\ \A a \in Agents : agents[a].belief_si.task = 1 /\ agents[a].use_si

\* C10: over the training episodes of a run, the seen-set of the agent with
\* a given id never shrinks.
C10_SeenSetNeverShrinks ==
    [][args.training =>
          \A a \in DOMAIN agents :
              agents[a].seen_true_states \subseteq agents'[a].seen_true_states]_vars

\* C11: over the training episodes of a run, a true-state value that has
\* triggered register_task for the agent with a given id does not trigger it
\* again: a step that registers for an agent does so for a value that has not
\* triggered a registration for that agent id before.
C11_RegisterAtMostOncePerState ==
    [][(pc = "finish_step" /\ args.training /\ args.use_si)
       => \A a \in Agents :
              Registered(agents'[a]) > Registered(agents[a])
                  => env.true_state \notin registered_states[a]]_vars

\* The calls a step made for agent a on its trackers, archive and seen-set,
\* as (operation, state) pairs in the order they were made.
HandlerCalls(before, after, a) ==
    LET added == SubSeq(after, Len(before) + 1, Len(after))
        mine == SelectSeq(added, LAMBDA c : c.agent = a /\ c.op # "get_attention_weights")
    IN [i \in 1 .. Len(mine) |-> <<mine[i].op, mine[i].state>>]

StepOver == pc = "summary" \/ (pc = "select" /\ step > 0)

\* C13: for an environment with safe_payoff run with discrete actions, after
\* every step info["allocations"] holds, for every agent in action_probs,
\* the probability of action index 1 when the vector has at least 2 entries
\* and 0.5 otherwise, whatever allocations the environment had put in info
\* and whatever discrete action was taken.
C13_AllocationIsProbOfActionOne ==
    (StepOver /\ env.safe_payoff /\ ~ args.continuous_actions) =>
        /\ info.allocations_given
        /\ \A a \in DOMAIN action_probs :
               info.allocations[a] = IF Len(action_probs[a]) >= 2
                                     THEN action_probs[a][2]
                                     ELSE FallbackAllocation

\* C13 witness: a step is over in which one agent took action 1 with a
\* one-entry vector and another took action 0 with a two-entry vector.
C13_Witness ==
    /\ StepOver
    /\ env.safe_payoff
    /\ ~ args.continuous_actions
    /\ \E a, b \in Agents :
           /\ actions[a] = IndexAction(1)
           /\ Len(action_probs[a]) = 1
           /\ info.allocations[a] = FallbackAllocation
           /\ actions[b] = IndexAction(0)
           /\ Len(action_probs[b]) = 2
           /\ info.allocations[b] = action_probs[b][2]

\* C14: in a training step with continuous actions, for every agent already
\* processed, the policy was queried exactly once more, inside a no-gradient
\* context, and the action stored in the transition is the allocation that
\* query returned, not the raw action sent to the environment.
C14_StoredAllocationFromNoGradQuery ==
    (args.training /\ args.continuous_actions /\ InStep) =>
        \A a \in Agents :
            Processed(a) =>
                /\ Cardinality(CallsOf("policy", a)) = 1
                /\ \A i \in CallsOf("policy", a) : calls[i].no_grad
                /\ \A i \in CallsOf("store", a) :
                       /\ calls[i].action = PolicyAllocation
                       /\ calls[i].action # actions[a]

\* The agent's current and next observation records both carry the signal
\* field of their environment variant.
CarriesSignal(a) ==
    \/ "signal" \in observations[a] /\ "signal" \in next_observations[a]
    \/ /\ "background_signal" \in observations[a]
       /\ "background_increment" \in observations[a]
       /\ "background_increment" \in next_observations[a]

\* C15: in every step, in training and in evaluation alike, infer_latent was
\* called exactly once for every agent already processed (whose records
\* carry their signal), with the signal of the agent's current observation
\* and, as next signal, the signal of the agent's next observation returned
\* by this step's env.step.
C15_InferLatentGetsNextSignal ==
    \A a \in Agents :
        (Processed(a) /\ CarriesSignal(a)) =>
            /\ Cardinality(CallsOf("infer_latent", a)) = 1
            /\ \A i \in CallsOf("infer_latent", a) :
                   /\ calls[i].signal.owner = a
                   /\ calls[i].signal.at = "current"
                   /\ calls[i].next_signal.owner = a
                   /\ calls[i].next_signal.at = "next"
                   /\ calls[i].next_signal.field = calls[i].signal.field

\* The positions in a call log of the calls of one operation for one agent.
CallsIn(log, op, a) == {i \in 1 .. Len(log) : log[i].op = op /\ log[i].agent = a}

\* C16: an iteration of _update_agent_states that completes for an agent has
\* called the agent's observe exactly once in this step, and in training the
\* transition it stored holds as pre-belief and pre-latent the values the
\* agent held before observe, and as next-belief and next-latent the values
\* the agent holds after this step's observe and infer_latent.
C16_TransitionKeepsPreUpdateValues ==
    [][(pc = "update_agents" /\ pc' # "raised")
       => LET a == agent_id
              before == agents[a]
              after == agents'[a]
          IN /\ Cardinality(CallsIn(calls', "observe", a)) = 1
             /\ CallsIn(calls, "observe", a) = {}
             /\ after.belief_updates = before.belief_updates + 1
             /\ after.current_latent = before.current_latent + 1
             /\ args.training =>
                    LET stored == replay_buffers'[a][Len(replay_buffers'[a])]
                    IN /\ stored.owner = a
                       /\ stored.episode = episode
                       /\ stored.step = step
                       /\ stored.belief = before.current_belief
                       /\ stored.belief_updates = before.belief_updates
                       /\ stored.latent = before.current_latent
                       /\ stored.next_belief = after.current_belief
                       /\ stored.next_belief_updates = after.belief_updates
                       /\ stored.next_latent = after.current_latent]_vars

\* C16 witness: in a training step after the first every agent has been
\* updated, and the transition stored last for agent 0 holds the belief and
\* latent of before this step's update and those of after it.
C16_Witness ==
    /\ pc = "finish_step"
    /\ args.training
    /\ step > 0
    /\ \A a \in Agents : Cardinality(CallsOf("observe", a)) = 1
    /\ LET stored == replay_buffers[0][Len(replay_buffers[0])]
       IN /\ stored.step = step
          /\ stored.belief_updates = step
          /\ stored.next_belief_updates = step + 1
          /\ stored.latent = step
          /\ stored.next_latent = agents[0].current_latent

AgentUpdateOps == {"observe", "infer_latent", "policy", "store", "sample", "update"}
DoneCheckOps ==
    {"belief_si.register_task", "policy_si.register_task", "belief_si.set_task",
     "policy_si.set_task", "archive", "seen_true_states.add"}

\* C17: a loop iteration of _run_simulation that has run to its end made its
\* calls in this order: action selection, then exactly one env.step, then
\* the per-agent observe / infer_latent updates of every agent, then exactly
\* one metrics_tracker.update, then whatever the done check does; and while
\* step i is being processed the current observations are those of the i-th
\* env call of the episode (env.initialize for step 0, the env.step of step
\* i-1 otherwise) and the next observations those of this step's env.step.
C17_IterationOrder ==
    /\ StepOver =>
           /\ calls[1].op = "select_agent_actions"
           /\ calls[2].op = "env.step"
           /\ Cardinality(CallsNamed("select_agent_actions")) = 1
           /\ Cardinality(CallsNamed("env.step")) = 1
           /\ Cardinality(CallsNamed("metrics_tracker.update")) = 1
           /\ \A a \in Agents :
                  /\ Cardinality(CallsOf("observe", a)) = 1
                  /\ Cardinality(CallsOf("infer_latent", a)) = 1
           /\ \A i \in 1 .. Len(calls), j \in CallsNamed("metrics_tracker.update") :
                  /\ calls[i].op \in AgentUpdateOps => (2 < i /\ i < j)
                  /\ calls[i].op \in DoneCheckOps => j < i
    /\ InStep =>
           /\ observations_from = step
           /\ next_observations_from = step + 1

\* C17 witness: the third step of a training episode with continual learning
\* is over, ended by done: the handler's calls follow the metrics update.
C17_Witness ==
    /\ pc = "summary"
    /\ step = 2
    /\ done
    /\ args.training
    /\ args.use_si
    /\ observations_from = 3
    /\ \E i \in CallsNamed("archive"), j \in CallsNamed("metrics_tracker.update") : j < i

\* A metrics record holds entries of the steps of episode k only (episodes
\* counted from 0): one step entry for each recorded step, tagged with
\* episode k, and one belief entry per agent for each recorded step and for
\* the step under way.
OnlyEntriesOf(record, k) ==
    /\ Len(record.step_entries) = record.step_records
    /\ \A i \in 1 .. Len(record.step_entries) :
           /\ record.step_entries[i].episode = k
           /\ record.step_entries[i].step = i - 1
    /\ \A a \in Agents :
           Len(record.belief_distributions[a]) \in {record.step_records, record.step_records + 1}

\* C18: every episode of a training or evaluation run gets a fresh metrics
\* store: the record appended to episodic_metrics for episode k holds only
\* entries produced by the steps of episode k, the store of the running
\* episode holds only entries of that episode, and no step of the run
\* changes a record that was already appended.
C18_FreshMetricsPerEpisode ==
    /\ [](/\ \A k \in 1 .. Len(episodic_metrics) :
                 /\ OnlyEntriesOf(episodic_metrics[k], k - 1)
                 /\ episodic_metrics[k].step_records > 0
                 /\ \A a \in Agents :
                        Len(episodic_metrics[k].belief_distributions[a])
                            = episodic_metrics[k].step_records
          /\ (pc \in {"select", "update_agents", "finish_step", "summary"})
                 => OnlyEntriesOf(metrics, episode))
    /\ [][/\ Len(episodic_metrics') >= Len(episodic_metrics)
          /\ \A k \in 1 .. Len(episodic_metrics) :
                 episodic_metrics'[k] = episodic_metrics[k]]_vars

\* C18 witness: the second episode of a run is under way with entries of
\* its own, while the record of the first episode holds more steps.
C18_Witness ==
    /\ pc = "select"
    /\ episode = 1
    /\ Len(episodic_metrics) = 1
    /\ metrics.step_records = 1
    /\ episodic_metrics[1].step_records = 3
    /\ metrics.step_entries[1].episode = 1

FatalErrors == {"InvalidBeliefDistributionError", "ObservationProcessingError"}

\* C19: a fatal error raised in a step leaves _run_simulation and run_agents
\* unhandled: once it is raised the run is over (no step of the run follows,
\* so no env.step, observe, store, update or metrics update, and no later
\* episode), the episode under way has written no summary and was not
\* appended to the results, and nothing is returned.
C19_FatalErrorAborts ==
    /\ [](error \in FatalErrors =>
              /\ pc = "raised"
              /\ metrics.summary_writes = 0
              /\ Len(episodic_metrics) = episode
              /\ episode < args.num_episodes)
    /\ [][error \notin FatalErrors]_vars

\* C19 witness: ObservationProcessingError was raised in the first episode
\* of a run of two episodes, for the second agent, after the first agent had
\* been updated in that step.
C19_Witness ==
    /\ pc = "raised"
    /\ error = "ObservationProcessingError"
    /\ episode = 0
    /\ args.num_episodes = 2
    /\ agent_id = 1
    /\ CallsOf("observe", 0) # {}
    /\ episodic_metrics = << >>

\* The modules a step has queried for attention weights, in the order of
\* the queries: the agent and what its module did.
AttentionQueries(before, after) ==
    LET added == SubSeq(after, Len(before) + 1, Len(after))
        mine == SelectSeq(added, LAMBDA c : c.op = "get_attention_weights")
    IN [i \in 1 .. Len(mine) |-> [agent |-> mine[i].agent, outcome |-> mine[i].outcome]]

ResultsProcessed == pc \in {"returned", "raised"}

\* Record ep holds a total reward for agent a.
HasTotal(ep, a) ==
    /\ "total_rewards" \in DOMAIN ep
    /\ ep["total_rewards"].shape = "agent_scalars"
    /\ a \in ep["total_rewards"].ids

\* Agent a has a total reward in each of the episodes.
HasTotals(a) == \A e \in 1 .. Len(episode_records) : HasTotal(episode_records[e], a)

TotalsOf(a) ==
    [e \in 1 .. Len(episode_records) |-> episode_records[e]["total_rewards"].numbers[a]]

\* C21: for every non-empty sequence of episode records, the evaluation
\* aggregate's total_rewards holds, for every agent that has a total reward
\* in the episodes, the arithmetic mean of the agent's totals over all
\* episodes: aggregate * number of episodes = sum of the totals.
C21_TotalRewardsAreMeans ==
    (ResultsProcessed /\ ~args.training /\ episode_records # << >>) =>
        \A a \in Agents :
            HasTotals(a) =>
                /\ pc = "returned"
                /\ "total_rewards" \in DOMAIN combined_metrics
                /\ a \in combined_metrics["total_rewards"].ids
                /\ combined_metrics["total_rewards"].over > 0
                /\ combined_metrics["total_rewards"].numbers[a] * Len(episode_records)
                       = Sum(TotalsOf(a)) * combined_metrics["total_rewards"].over

\* Two or more episodes in which an agent's totals differ have been averaged,
\* while another agent lacks a total in one of them.
C21_Witness ==
    /\ pc = "returned"
    /\ ~args.training
    /\ Len(episode_records) >= 2
    /\ \E a \in Agents :
           /\ HasTotals(a)
           /\ TotalsOf(a)[1] # TotalsOf(a)[2]
           /\ a \in combined_metrics["total_rewards"].ids
    /\ \E a \in Agents : ~HasTotals(a)

\* ------------------------------------------------------------------ C22
\* Record ep holds, under the key, a mapping from agent ids to lists.
HasLists(ep, key) == key \in DOMAIN ep /\ ep[key].shape = "agent_lists"

\* Every record holds such a mapping under the key.
MapsAgentsToLists(key) ==
    \A e \in 1 .. Len(episode_records) : HasLists(episode_records[e], key)

\* From the first record on, every record that has the key holds such a
\* mapping under it.
MapsAgentsToListsWherePresent(key) ==
    /\ HasLists(episode_records[1], key)
    /\ \A e \in 1 .. Len(episode_records) :
           key \in DOMAIN episode_records[e] => HasLists(episode_records[e], key)

\* The agent's lists under the key, one after the other in input order.
ListsInOrder(key, a) ==
    ConcatOver([e \in 1 .. Len(episode_records) |->
                   IF HasLists(episode_records[e], key) /\ a \in episode_records[e][key].ids
                   THEN episode_records[e][key].lists[a]
                   ELSE << >>],
               1, Len(episode_records))

Aggregated(key, a) ==
    /\ pc = "returned"
    /\ key \in DOMAIN combined_metrics
    /\ a \in combined_metrics[key].ids
    /\ combined_metrics[key].lists[a] = ListsInOrder(key, a)

\* C22 as stated: for every key whose per-episode value maps agent ids to
\* lists and every agent id that appears under the key in any episode, the
\* evaluation aggregate holds the concatenation of the agent's per-episode
\* lists, episodes in input order.
C22_EveryAgentOfAnyEpisode ==
    (ResultsProcessed /\ ~args.training /\ episode_records # << >>) =>
        \A key \in {"metric", "belief_distributions"} :
            MapsAgentsToLists(key) =>
                \A a \in Agents :
                    (\E e \in 1 .. Len(episode_records) : a \in episode_records[e][key].ids)
                        => Aggregated(key, a)

\* C22 amended: for every key that maps agent ids to lists in the first
\* episode and in every later episode that has the key, the evaluation
\* aggregate holds exactly the agent ids of the first episode, each with the
\* concatenation of the agent's lists in the episodes that have them, in
\* input order.
C22_AgentsOfFirstEpisode ==
    (ResultsProcessed /\ ~args.training /\ episode_records # << >>) =>
        \A key \in {"metric", "belief_distributions"} :
            MapsAgentsToListsWherePresent(key) =>
                /\ pc = "returned"
                /\ key \in DOMAIN combined_metrics
                /\ combined_metrics[key].ids = episode_records[1][key].ids
                /\ \A a \in episode_records[1][key].ids : Aggregated(key, a)

\* Lists of an agent of the first episode have been strung together, while
\* an agent that appears only in a later episode is left out.
C22_Witness ==
    /\ pc = "returned"
    /\ ~args.training
    /\ Len(episode_records) >= 2
    /\ MapsAgentsToLists("metric")
    /\ \E a \in episode_records[1]["metric"].ids :
           /\ a \in episode_records[2]["metric"].ids
           /\ episode_records[1]["metric"].lists[a] # << >>
           /\ episode_records[2]["metric"].lists[a] # << >>
           /\ Len(combined_metrics["metric"].lists[a]) =
                  Len(episode_records[1]["metric"].lists[a])
                      + Len(episode_records[2]["metric"].lists[a])
    /\ \E a \in episode_records[2]["metric"].ids :
           a \notin episode_records[1]["metric"].ids

\* ------------------------------------------------------------------ C23
\* The entry is one of the four kinds the aggregator merges.
Mergeable(key, v) ==
    \/ key \in {"episode_time", "total_rewards"}
    \/ v.shape \in {"agent_lists", "list"}
    \/ (is_dict(v) /\ v.ids = {})

\* C23: _aggregate_episode_results never raises, whatever the episode
\* records; a key whose first entry is of none of the merged kinds is absent
\* from the aggregate, also when the shape under the key differs between the
\* episodes; no episodes give an empty aggregate.
C23_AggregationNeverRaises ==
    (ResultsProcessed /\ ~args.training) =>
        /\ pc = "returned"
        /\ episode_records = << >> => DOMAIN combined_metrics = {}
        /\ episode_records # << >> =>
               \A key \in DOMAIN episode_records[1] :
                   ~Mergeable(key, episode_records[1][key])
                       => key \notin DOMAIN combined_metrics

\* ------------------------------------------------------------------ C24
\* The keys of the episode records.
KeysHandedOver == UNION {DOMAIN episode_records[e] : e \in 1 .. Len(episode_records)}

\* Every record that has the key holds an entry of the shape under it.
HoldsOnly(key, shape) ==
    \A e \in 1 .. Len(episode_records) :
        key \in DOMAIN episode_records[e] => episode_records[e][key].shape = shape

\* The lengths of the per-episode sequences under the key (of agent a, where
\* the key maps agent ids to sequences).
LengthsOf(key, a) ==
    [e \in 1 .. Len(episode_records) |->
        IF key \notin DOMAIN episode_records[e] THEN 0
        ELSE IF episode_records[e][key].shape = "list"
        THEN Len(episode_records[e][key].list)
        ELSE Len(episode_records[e][key].lists[a])]

\* C24: in a training run the combined record holds, for each key of
\* sequences, a sequence whose length is the sum of the lengths of the
\* per-episode sequences of that key.
C24_FlattenedLengthIsSum ==
    (ResultsProcessed /\ args.training) =>
        /\ pc = "returned"
        /\ \A key \in KeysHandedOver :
               /\ HoldsOnly(key, "list") =>
                      /\ key \in DOMAIN combined_metrics
                      /\ Len(combined_metrics[key].list) = Sum(LengthsOf(key, 0))
               /\ HoldsOnly(key, "agent_lists") =>
                      /\ key \in DOMAIN combined_metrics
                      /\ \A a \in Agents :
                             Len(combined_metrics[key].lists[a]) = Sum(LengthsOf(key, a))

\* A training run has flattened two or more episodes with sequences under a
\* key that the first episode lacks.
C24_Witness ==
    /\ pc = "returned"
    /\ args.training
    /\ Len(episode_records) >= 2
    /\ "metric" \notin DOMAIN episode_records[1]
    /\ "metric" \in DOMAIN episode_records[2]
    /\ "metric" \in DOMAIN combined_metrics
    /\ \/ HoldsOnly("metric", "list") /\ combined_metrics["metric"].list # << >>
       \/ /\ HoldsOnly("metric", "agent_lists")
          /\ \E a \in Agents : combined_metrics["metric"].lists[a] # << >>

\* ------------------------------------------------------------------ C25
\* An episode is under way.
Running == pc \in {"select", "update_agents", "finish_step", "summary"}

\* The steps of this run at which a transition of agent a has been stored,
\* in the order of the stores: every step of the episodes that are over,
\* every finished step of the episode under way, and the current step once
\* the agent has been processed.
StoredSoFar(a) ==
    ConcatOver([k \in 1 .. Len(episodic_metrics) |-> episodic_metrics[k].step_entries],
               1, Len(episodic_metrics))
        \o (IF Running THEN metrics.step_entries ELSE << >>)
        \o (IF Processed(a) THEN << [episode |-> episode, step |-> step] >> ELSE << >>)

LastOf(s, n) == SubSeq(s, Len(s) - n + 1, Len(s))

Min(m, n) == IF m <= n THEN m ELSE n

\* C25: after N stores into a buffer of capacity C the buffer holds min(C, N)
\* records, which are the last min(C, N) records stored, in the order in
\* which they were stored; a store into a full buffer does not fail.
C25_BufferHoldsLastStored ==
    (args.training /\ pc \notin {"constructed", "raised"}) =>
        \A a \in Agents :
            LET held == replay_buffers[a]
            IN  /\ Len(held) = Min(args.buffer_capacity, Len(StoredSoFar(a)))
                /\ [i \in 1 .. Len(held) |->
                       [episode |-> held[i].episode, step |-> held[i].step]]
                       = LastOf(StoredSoFar(a), Len(held))

\* More records than the buffer holds have been stored, over two episodes,
\* and the run has gone on.
C25_Witness ==
    /\ args.training
    /\ pc = "returned"
    /\ \E a \in Agents :
           /\ Len(StoredSoFar(a)) > args.buffer_capacity + 1
           /\ Len(replay_buffers[a]) = args.buffer_capacity
           /\ replay_buffers[a][1].episode # replay_buffers[a][Len(replay_buffers[a])].episode

\* ------------------------------------------------------------------ C26
\* The records a buffer holds.
RecordsOf(buffer) == {buffer[i] : i \in 1 .. Len(buffer)}

\* C26: sample(B) on a buffer of S records fails if and only if S <= B, so
\* also when S = B; it succeeds if and only if S > B and then returns
\* exactly B distinct records of the buffer; and sampling leaves the buffer
\* as it was.
C26_SampleFailsUnlessMore ==
    /\ [](pc \in {"sampled", "raised"} =>
            LET S == Len(replay_buffers[agent_id])
                B == args.batch_size
            IN  /\ (pc = "raised") <=> (S <= B)
                /\ (pc = "raised") => error = "InsufficientDataError" /\ batch = {}
                /\ (pc = "sampled") <=> (S > B)
                /\ (pc = "sampled") =>
                       batch \subseteq RecordsOf(replay_buffers[agent_id])
                       /\ Cardinality(batch) = B)
    /\ [][pc = "sample" => replay_buffers' = replay_buffers]_vars

\* A buffer that holds exactly batch_size records has been sampled, and the
\* call failed.
C26_Witness ==
    /\ pc = "raised"
    /\ error = "InsufficientDataError"
    /\ Len(replay_buffers[agent_id]) = args.batch_size
    /\ args.batch_size > 0

\* ------------------------------------------------------------------ C27
\* The key-value pairs of a mapping.
PairsOf(neighbor_actions) == {neighbor_actions[k] : k \in 1 .. Len(neighbor_actions)}

\* C27: two neighbor-action mappings with the same key-value pairs encode to
\* the same vector whatever their insertion orders, and the encoded vector
\* has num_agents entries however many neighbors report.
C27_EncodingIgnoresReportOrder ==
    pc = "encoded" =>
        /\ Len(encodings.actions_encoded) = NumAgents
        /\ Len(encodings.next_actions_encoded) = NumAgents
        /\ PairsOf(encodings.neighbor_actions) = PairsOf(encodings.next_neighbor_actions)
               => encodings.actions_encoded = encodings.next_actions_encoded

\* Two mappings of the same pairs in different orders have been encoded.
C27_Witness ==
    /\ pc = "encoded"
    /\ PairsOf(encodings.neighbor_actions) = PairsOf(encodings.next_neighbor_actions)
    /\ encodings.neighbor_actions # encodings.next_neighbor_actions
    /\ \E k \in 1 .. Len(encodings.neighbor_actions) :
           encodings.neighbor_actions[k].action # encodings.neighbor_actions[1].action

\* ------------------------------------------------------------------ C28
\* The belief distributions recorded for agent b, the agent's object and the
\* agent's buffer are what they were.
Untouched(b) ==
    /\ agents'[b] = agents[b]
    /\ metrics'.belief_distributions[b] = metrics.belief_distributions[b]
    /\ b \in DOMAIN replay_buffers => replay_buffers'[b] = replay_buffers[b]

\* The record the step has put into the buffer of agent a is the newest one
\* there, is tagged with a and the current step and holds the agent's own
\* counts of belief and latent updates.
StoredOwn(a) ==
    LET newest == replay_buffers'[a][Len(replay_buffers'[a])]
    IN  /\ Len(replay_buffers'[a]) > 0
        /\ newest.owner = a
        /\ newest.episode = episode /\ newest.step = step
        /\ newest.belief_updates = agents[a].belief_updates
        /\ newest.next_belief_updates = agents'[a].belief_updates
        /\ newest.latent = agents[a].current_latent
        /\ newest.next_latent = agents'[a].current_latent

\* C28: in every step the processing of agent i leaves every other agent's
\* object, buffer and recorded beliefs alone; the transition built from agent
\* i's belief and latent goes into replay_buffers[i] only, and an update of
\* agent i gets a batch of records of replay_buffers[i] only; and the agents
\* are processed one after the other in ascending order of their ids.
C28_AgentsKeepToThemselves ==
    /\ [][pc = "update_agents" =>
            /\ \A b \in Agents \ {agent_id} : Untouched(b)
            /\ (pc' # "raised" /\ args.training) => StoredOwn(agent_id)
            /\ agents'[agent_id].updates # agents[agent_id].updates =>
                   /\ batch' # {}
                   /\ batch' \subseteq RecordsOf(replay_buffers'[agent_id])
                   /\ \A t \in batch' : t.owner = agent_id
            /\ pc' # "raised" => agent_id' = agent_id + 1]_vars
    /\ [](InStep =>
            /\ \A i \in CallsNamed("observe") :
                   calls[i].agent = Cardinality({j \in CallsNamed("observe") : j < i})
            /\ Cardinality(CallsNamed("observe")) = agent_id)
    /\ [](pc \notin {"constructed", "raised"} =>
            \A a \in DOMAIN replay_buffers :
                \A i \in 1 .. Len(replay_buffers[a]) : replay_buffers[a][i].owner = a)

\* The second agent has been updated with a batch drawn from its own buffer
\* that is not the newest record there, the first agent's buffer being full.
C28_Witness ==
    /\ pc = "finish_step"
    /\ args.training
    /\ agents[NumAgents - 1].updates > 0
    /\ Len(replay_buffers[0]) = args.buffer_capacity
    /\ batch \subseteq RecordsOf(replay_buffers[NumAgents - 1])
    /\ \E i \in CallsNamed("update") : calls[i].agent = NumAgents - 1
    /\ replay_buffers[NumAgents - 1][Len(replay_buffers[NumAgents - 1])] \notin batch

\* ------------------------------------------------------------------ C29
\* The steps of the episode under way that env.step has been called for.
StepsExecuted == Len(done_sequence)

\* C29: in training and in evaluation alike, every agent's list in
\* belief_distributions gets exactly one entry per executed step, appended
\* in the agent's turn of that step and holding what that step's observe
\* returned; so after an episode of k steps it holds k entries, as many as
\* there are step records.
C29_OneBeliefEntryPerStep ==
    /\ [](\A k \in 1 .. Len(episodic_metrics) : \A a \in Agents :
              /\ Len(episodic_metrics[k].belief_distributions[a])
                     = episodic_metrics[k].step_records
              /\ episodic_metrics[k].step_records = Len(episodic_metrics[k].step_entries))
    /\ []((Running /\ pc # "raised") =>
              \A a \in Agents :
                  Len(metrics.belief_distributions[a])
                      = IF InStep /\ ~Processed(a) THEN StepsExecuted - 1 ELSE StepsExecuted)
    /\ []((pc = "summary") => metrics.step_records = StepsExecuted)
    /\ [][\A a \in Agents :
              (pc # "episode_start"
                  /\ metrics'.belief_distributions[a] # metrics.belief_distributions[a]) =>
                  /\ pc = "update_agents" /\ a = agent_id
                  /\ metrics'.belief_distributions[a]
                         = Append(metrics.belief_distributions[a],
                                  agents'[a].current_belief_distribution)
                  /\ agents'[a].belief_updates = agents[a].belief_updates + 1
                  /\ CallsIn(calls', "observe", a) # {}]_vars

\* An evaluation episode of more than one step is over, cut short by done,
\* and every agent has one belief distribution per step record.
C29_Witness ==
    /\ pc = "returned"
    /\ Len(episodic_metrics) >= 1
    /\ episodic_metrics[1].step_records > 1
    /\ episodic_metrics[1].step_records < args.horizon
    /\ ~args.training
    /\ \A a \in Agents :
           Len(episodic_metrics[1].belief_distributions[a]) = episodic_metrics[1].step_records

\* ------------------------------------------------------------------ C30
\* C30: the summary fields are written once per episode, after its last
\* executed step: total_rewards holds for each agent id 0 .. num_agents-1
\* the sum of the agent's rewards over the executed steps, and
\* final_observations holds the observations the last executed env.step
\* returned.
C30_SummaryAfterLastStep ==
    /\ [](\A k \in 1 .. Len(episodic_metrics) :
              /\ episodic_metrics[k].summary_writes = 1
              /\ DOMAIN episodic_metrics[k].total_rewards = Agents
              /\ \A a \in Agents :
                     episodic_metrics[k].total_rewards[a]
                         = (a + 1) * episodic_metrics[k].step_records)
    /\ []((Running /\ pc # "summary") => metrics.summary_writes = 0)
    /\ [][pc = "select" /\ pc' = "update_agents" =>
              \A a \in Agents :
                  total_rewards'[a] = total_rewards[a] + reward_value(rewards'[a])]_vars
    /\ [][pc = "summary" =>
              /\ metrics'.total_rewards = total_rewards
              /\ metrics'.final_observations = next_observations
              /\ observations_from = StepsExecuted
              /\ next_observations_from = StepsExecuted
              /\ metrics.step_records = StepsExecuted
              /\ episodic_metrics' = Append(episodic_metrics, metrics')]_vars

\* An episode that done cut short after more than one step has been summed
\* up; its last step returned other observations than the step before.
C30_Witness ==
    /\ pc = "returned"
    /\ Len(episodic_metrics) >= 1
    /\ episodic_metrics[1].step_records > 1
    /\ episodic_metrics[1].step_records < args.horizon
    /\ episodic_metrics[1].summary_writes = 1
    /\ episodic_metrics[1].total_rewards[NumAgents - 1]
           = NumAgents * episodic_metrics[1].step_records
    /\ \E a \in Agents : episodic_metrics[1].final_observations[a] # RegularObs(env)

\* ------------------------------------------------------------------ C31
\* C31: the agents that select actions and observe in an episode are the
\* objects run_agents built, loaded the models into and put into the mode
\* of the run.
C31_ActingAgentsAreLoaded ==
    Running =>
        \A a \in Agents :
            /\ agents[a].initialized_in = "run_agents"
            /\ agents[a].models_loaded
            /\ agents[a].mode = IF args.training THEN "train" ELSE "eval"

\* ------------------------------------------------------------------ C32
\* C32: in a training run an episode begins with every agent holding the
\* parameter updates it had received when the episode before ended, and
\* within an episode an agent's updates are never taken back, so that the
\* agents handed to save_final_models hold the updates of all episodes.
C32_UpdatesRetained ==
    [][args.training =>
          /\ \A a \in DOMAIN agents :
                 pc = "episode_start" => agents'[a].updates = agents[a].updates
          /\ \A a \in DOMAIN agents :
                 Running => agents'[a].updates >= agents[a].updates
          /\ pc = "process_results" => agents' = agents]_vars

\* ------------------------------------------------------------------ C33
\* The steps stored in the episodes that are over.
StoredInEarlierEpisodes ==
    ConcatOver([k \in 1 .. Len(episodic_metrics) |-> episodic_metrics[k].step_entries],
               1, Len(episodic_metrics))

\* C33: the buffers of a training run are built once and only ever stored
\* into: no buffer gets shorter, nothing but an agent's turn changes a
\* buffer, an episode begins with each buffer holding the last records of
\* the earlier episodes (up to capacity), and at step 0 an agent is updated
\* exactly when its buffer, with the record of this step, holds more than
\* batch_size records, which happens in later episodes only and with a batch
\* of records of that buffer.
C33_BuffersOutliveEpisodes ==
    /\ [][pc # "constructed" =>
            /\ DOMAIN replay_buffers' = DOMAIN replay_buffers
            /\ \A a \in DOMAIN replay_buffers :
                   Len(replay_buffers'[a]) >= Len(replay_buffers[a])
            /\ pc # "update_agents" => replay_buffers' = replay_buffers]_vars
    /\ []((args.training /\ pc = "select" /\ step = 0) =>
            \A a \in Agents :
                /\ Len(replay_buffers[a])
                       = Min(args.buffer_capacity, Len(StoredInEarlierEpisodes))
                /\ [i \in 1 .. Len(replay_buffers[a]) |->
                       [episode |-> replay_buffers[a][i].episode,
                        step |-> replay_buffers[a][i].step]]
                       = LastOf(StoredInEarlierEpisodes, Len(replay_buffers[a])))
    /\ [][(args.training /\ pc = "update_agents" /\ step = 0 /\ pc' # "raised") =>
            LET a == agent_id
                updated == agents'[a].updates = agents[a].updates + 1
            IN  /\ updated <=> Len(replay_buffers'[a]) > args.batch_size
                /\ ~updated => agents'[a].updates = agents[a].updates
                /\ updated =>
                       /\ episode >= 1
                       /\ Cardinality(batch') = args.batch_size
                       /\ batch' \subseteq RecordsOf(replay_buffers'[a])]_vars

\* At step 0 of the second episode the first agent has been updated with a
\* batch that holds records of the first episode only.
C33_Witness ==
    /\ args.training
    /\ pc = "update_agents" /\ agent_id = 1
    /\ episode = 1 /\ step = 0
    /\ CallsOf("update", 0) # {}
    /\ agents[0].updates > 0
    /\ batch # {}
    /\ \A t \in batch : t.owner = 0 /\ t.episode = 0

\* ------------------------------------------------------------------ C34
\* C34: the signal handed to an agent's observe and infer_latent was read
\* from that agent's own observation record of the step; a record with
\* neither "signal" nor "background_signal" raises instead of passing on
\* what an earlier agent's iteration extracted.
C34_SignalIsTheAgentsOwn ==
    /\ [](InStep =>
            \A i \in CallsNamed("observe") \cup CallsNamed("infer_latent") :
                /\ calls[i].signal.owner = calls[i].agent
                /\ calls[i].signal.at = "current")
    /\ [][(pc = "update_agents"
              /\ "signal" \notin observations[agent_id]
              /\ "background_signal" \notin observations[agent_id]) =>
                 pc' = "raised"]_vars

\* ------------------------------------------------------------------ C35
\* C35: in a training run the two importance trackers of an agent that
\* uses SI have the same current task and have received the same number of
\* register_task calls, and between the handlers that task is the agent's
\* current_true_state.
C35_TrackersInLockstep ==
    args.training =>
        \A a \in DOMAIN agents :
            agents[a].use_si =>
                /\ agents[a].belief_si.task = agents[a].policy_si.task
                /\ agents[a].belief_si.registered = agents[a].policy_si.registered
                /\ agents[a].belief_si.task = agents[a].current_true_state

\* An episode of more than one step has ended with done at a true state
\* other than the one it began with, and the handler has registered the
\* task begun at INIT on both trackers of every agent and set the new one.
C35_Witness ==
    /\ args.training /\ args.use_si
    /\ pc = "summary" /\ done /\ step >= 1
    /\ \A a \in Agents :
           /\ agents[a].use_si
           /\ agents[a].belief_si.registered = 1
           /\ agents[a].policy_si.registered = 1
           /\ agents[a].policy_si.task = env.true_state
           /\ agents[a].seen_true_states = {env.true_state}
    /\ \E i \in 1 .. Len(calls) :
           calls[i].op = "policy_si.set_task" /\ calls[i].state = env.true_state

\* ------------------------------------------------------------------ C36
\* The value an argument of evaluate stands for: its own, or the one of args.
Requested(argument, default) == IF argument.given THEN argument.value ELSE default

\* C36: evaluate puts the requested number of episodes and of steps (the
\* values of args where an argument is None) into args for the time of the
\* run and nothing changes them during the run; when the run has returned,
\* and when it has raised, args.num_episodes and args.horizon are what they
\* were before the call.
C36_EvaluateRestoresArgs ==
    /\ [][pc = "evaluate" =>
            /\ args'.num_episodes = Requested(evaluation.num_episodes, args.num_episodes)
            /\ args'.horizon = Requested(evaluation.num_steps, args.horizon)
            /\ evaluation'.original_episodes = args.num_episodes
            /\ evaluation'.original_horizon = args.horizon]_vars
    /\ [][evaluation.active =>
            /\ evaluation'.original_episodes = evaluation.original_episodes
            /\ evaluation'.original_horizon = evaluation.original_horizon
            /\ evaluation'.active => args' = args]_vars
    /\ [](evaluation.active =>
            /\ args.num_episodes = evaluation.eval_episodes
            /\ args.horizon = evaluation.eval_steps)
    /\ []((~ evaluation.active /\ pc \in {"evaluated", "raised"}) =>
            /\ args.num_episodes = evaluation.original_episodes
            /\ args.horizon = evaluation.original_horizon
            /\ evaluation.returned <=> pc = "evaluated")

\* An evaluation asked for more steps than args.horizon has raised in its
\* second step, and args.horizon is back at its value.
C36_Witness ==
    /\ pc = "raised" /\ ~ evaluation.active
    /\ evaluation.num_steps.given
    /\ evaluation.eval_steps > evaluation.original_horizon
    /\ step = 1
    /\ args.horizon = evaluation.original_horizon
    /\ args.horizon # evaluation.eval_steps

\* ------------------------------------------------------------------ C37
\* C37: the 'evaluation_summary' entry of what evaluate returns is the
\* summary _calculate_evaluation_summary computed in the run.
C37_EvaluateReturnsSummary ==
    pc = "evaluated" =>
        /\ evaluation_summary.computed
        /\ evaluation_summary.num_episodes = evaluation.eval_episodes
        /\ evaluation.result.evaluation_summary = evaluation_summary

\* ------------------------------------------------------------------ C38
\* quick_evaluate is under way or has returned.
InQuickEvaluation == pc \in {"quick_step", "quick_results", "quick_returned"}

\* C38: the action_accuracy quick_evaluate reports for an agent is the
\* number of executed steps in which its action equalled env.true_state
\* over the number of executed steps, whether or not done cut the loop
\* short, and lies in [0, 1]; and quick_evaluate calls no observe,
\* infer_latent, update or store.
C38_QuickAccuracyOverExecutedSteps ==
    /\ [][pc = "quick_step" =>
            \A a \in Agents :
                quick_evaluation'.correct_actions[a]
                    = quick_evaluation.correct_actions[a]
                      + (IF actions'[a].value = env'.true_state THEN 1 ELSE 0)]_vars
    /\ [](pc = "quick_returned" =>
            \A a \in Agents :
                LET accuracy == quick_evaluation.action_accuracy[a]
                IN  /\ accuracy.over > 0
                    /\ 0 <= accuracy.sum /\ accuracy.sum <= accuracy.over
                    /\ accuracy.sum * StepsExecuted
                           = quick_evaluation.correct_actions[a] * accuracy.over)
    /\ [](InQuickEvaluation =>
            \A i \in 1 .. Len(calls) :
                calls[i].op \in {"env.initialize", "select_agent_actions", "env.step"})
    /\ [][InQuickEvaluation => replay_buffers' = replay_buffers /\ agents' = agents]_vars

====
